---- MODULE Spec2Model ----
(***************************************************************************)
(* A model of the rich-text engine: the value-run store (value_runs.hpp),  *)
(* the bidi line engine (u8bidiln.cpp), the font registry's fallback walk  *)
(* (font_registry.cpp) and the text box editor (sample/text_box.cpp).      *)
(*                                                                         *)
(* Each component has its own specification over the shared variables:     *)
(* SpecRuns, SpecBidi, SpecFont, SpecBox.  A component's actions leave the *)
(* other components' variables alone.                                      *)
(***************************************************************************)
EXTENDS Integers, Sequences, FiniteSets, TLC

VARIABLES
    runs,       \* ValueRuns: [values, limits], the two parallel vectors
    subset,     \* the last get_runs_subset call: [offset, length, out] or NoSubset
    para,       \* the paragraph U8BiDi object the lines point into
    line,       \* the line U8BiDi object (NoLine before u8bidi_set_line)
    bidiOut,    \* the last index-map call: [op, arg, res] or NoOut
    g_faces,            \* the registry's face records, by face handle
    g_facesByName,      \* face name -> face handle
    g_familyData,       \* the registry's family records, by family handle
    g_familiesByName,   \* family name -> family handle
    registerResult,     \* what the register_family call just made returned
    walk,               \* the layout's walk over a text span with get_sub_font
    boxes,              \* the TextBox objects: box id -> its members
    g_focusedTextBox,   \* the focused box's id, or NoBox
    g_isMouseDown,
    g_clickCount,
    g_lastClickPos,
    g_cursorPos,        \* [x, lineNumber] of the CursorPositionResult
    g_charBreakIter,    \* the character break iterator: [live, text]
    crashed,            \* an exception has left a handler of the text box
    primaryHeld,        \* the primary mouse button is down, as the window reports it
    emitted,            \* the last emit_rect call: its arguments and the rects it pushed
    cache,              \* t_fontContext.cache of the one thread: face handle -> FontDataOwner
    threads             \* two threads in the registry: [writer, reader], each with its pc

varsRuns == <<runs, subset>>

varsBidi == <<para, line, bidiOut>>

varsRegistry == <<g_faces, g_facesByName, g_familyData, g_familiesByName>>

varsFont == <<varsRegistry, registerResult, walk>>

varsBox == <<boxes, g_focusedTextBox, g_isMouseDown, g_clickCount, g_lastClickPos,
             g_cursorPos, g_charBreakIter, crashed, primaryHeld, emitted>>

varsCache == <<cache>>

varsThreads == <<threads>>

vars == <<varsRuns, varsBidi, varsFont, varsBox, varsCache, varsThreads>>

\* What a component's actions leave alone: the other components' variables.
notRuns == <<varsBidi, varsFont, varsBox, varsCache, varsThreads>>

notBidi == <<varsRuns, varsFont, varsBox, varsCache, varsThreads>>

notFont == <<varsRuns, varsBidi, varsBox, varsCache, varsThreads>>

notBox == <<varsRuns, varsBidi, varsFont, varsCache, varsThreads>>

notCache == <<varsRuns, varsBidi, varsBox, varsThreads>>

notThreads == <<varsRuns, varsBidi, varsBox, varsCache, registerResult, walk>>

(***************************************************************************)
(* Bounds of the model.                                                    *)
(***************************************************************************)
MaxLimit == 5

\* The longest paragraph whose level arrays are enumerated exhaustively.
MaxLen == 3

\* The length of the long paragraphs (built from a repeated level pattern),
\* long enough for more than ten runs, and the length of the pattern.
LongLen == 11

PatternLen == 3

RunValues == {"f1", "f2"}

Last(s) == s[Len(s)]

NoLine == [length |-> -1]

NoOut == [op |-> "none", arg |-> -1, res |-> -1]

NoPara == [length |-> -1]

\* The bidi engine with no paragraph set.
InitBidiIdle ==
    /\ para = NoPara
    /\ line = NoLine
    /\ bidiOut = NoOut

NoWalk == [status |-> "none"]

\* No thread is inside a registry function.
NoThreads ==
    [writer |-> [pc |-> "idle", info |-> <<>>, family |-> -1],
     reader |-> [pc |-> "idle", op |-> "none", family |-> -1,
                    result |-> [status |-> "none", face |-> -1]]]

\* The font registry before any registration.
InitFontIdle ==
    /\ threads = NoThreads
    /\ g_faces = <<>>
    /\ g_facesByName = {}
    /\ g_familyData = <<>>
    /\ g_familiesByName = {}
    /\ registerResult = "none"
    /\ walk = NoWalk
    /\ cache = {}

\* nullptr, for g_focusedTextBox.
NoBox == 0

\* CursorPosition::INVALID_VALUE.
INVALID_VALUE == -1

NoCursorPos == [x |-> 0, lineNumber |-> 0]

NoBreakIter == [live |-> FALSE, text |-> <<>>]

NoEmit == [x |-> -1, width |-> -1, color |-> "none", clip |-> <<>>, rects |-> <<>>]

\* The globals of the text box translation unit, before any box exists.
InitBoxStatics ==
    /\ g_focusedTextBox = NoBox
    /\ g_isMouseDown = FALSE
    /\ g_clickCount = 0
    /\ g_lastClickPos = INVALID_VALUE
    /\ g_cursorPos = NoCursorPos
    /\ g_charBreakIter = NoBreakIter
    /\ crashed = FALSE
    /\ primaryHeld = FALSE

InitBoxGlobals ==
    /\ InitBoxStatics
    /\ emitted = NoEmit

InitBoxIdle ==
    /\ boxes = <<>>
    /\ InitBoxGlobals

(***************************************************************************)
(* A. Value-run store                                                      *)
(***************************************************************************)
EmptyRuns == [values |-> <<>>, limits |-> <<>>]

NoSubset == [offset |-> -1, length |-> -1, out |-> EmptyRuns]

\* ValueRuns::add: emplace_back on both vectors.
add(vr, limit, value) ==
    [values |-> Append(vr.values, value), limits |-> Append(vr.limits, limit)]

\* The first loop of get_runs_subset: skip the slots whose limit is < offset.
\* Slots are 0-based as in the code; m_limits[i] is limits[i + 1] here.
RECURSIVE SubsetFirstSlot(_, _, _)
SubsetFirstSlot(limits, offset, i) ==
    IF i < Len(limits) /\ limits[i + 1] < offset
    THEN SubsetFirstSlot(limits, offset, i + 1)
    ELSE i

\* The second loop of get_runs_subset: re-emit limit - offset for each slot,
\* the last one clamped to length.
RECURSIVE SubsetEmit(_, _, _, _, _)
SubsetEmit(vr, offset, length, i, output) ==
    IF i >= Len(vr.limits) THEN output
    ELSE LET newLimit == vr.limits[i + 1] - offset
         IN  IF newLimit < length
             THEN SubsetEmit(vr, offset, length, i + 1,
                             add(output, newLimit, vr.values[i + 1]))
             ELSE add(output, length, vr.values[i + 1])

\* The subset as a port that forgets the rebase would write it: the limits
\* are re-emitted as they are, not as limit - offset.
get_runs_subset_no_rebase(vr, offset, length, output) ==
    SubsetEmit(vr, 0, length, SubsetFirstSlot(vr.limits, offset, 0), output)

get_runs_subset(vr, offset, length, output) ==
    SubsetEmit(vr, offset, length, SubsetFirstSlot(vr.limits, offset, 0), output)

\* ValueRuns::get_run_index: the binary search, returning a 0-based slot
\* (Len(limits) when no limit is > index).
RECURSIVE RunIndexSearch(_, _, _, _)
RunIndexSearch(limits, index, first, count) ==
    IF count > 0
    THEN LET step == count \div 2
             i    == first + step
         IN  IF limits[i + 1] <= index
             THEN RunIndexSearch(limits, index, i + 1, count - (step + 1))
             ELSE RunIndexSearch(limits, index, first, step)
    ELSE first

\* The search with the limits taken as the last index of their run.
get_run_index_inclusive(vr, index) ==
    RunIndexSearch(vr.limits, index - 1, 0, Len(vr.limits))

get_run_index(vr, index) == RunIndexSearch(vr.limits, index, 0, Len(vr.limits))

\* Reading m_values past its end is undefined: the model reports it as such.
OutOfRange == "out-of-range"

get_value(vr, index) ==
    LET slot == get_run_index(vr, index)
    IN  IF slot < Len(vr.values) THEN vr.values[slot + 1] ELSE OutOfRange

get_limit(vr) == Last(vr.limits)

InitRunsVars ==
    /\ runs = EmptyRuns
    /\ subset = NoSubset

InitRunsIdle == InitRunsVars

InitRuns ==
    /\ InitRunsVars
    /\ InitBidiIdle
    /\ InitFontIdle
    /\ InitBoxIdle

\* add(limit, value); the caller supplies strictly increasing limits.
Add ==
    \E limit \in 1..MaxLimit, value \in RunValues :
        /\ Len(runs.limits) > 0 => limit > get_limit(runs)
        /\ runs' = add(runs, limit, value)
        /\ subset' = NoSubset
        /\ UNCHANGED notRuns

\* get_runs_subset(offset, length, out) into an empty out, within the domain.
GetRunsSubset ==
    /\ Len(runs.limits) > 0
    /\ \E offset \in 0..(get_limit(runs) - 1) :
        \E length \in 1..(get_limit(runs) - offset) :
            subset' = [offset |-> offset, length |-> length,
                       out |-> get_runs_subset(runs, offset, length, EmptyRuns)]
    /\ UNCHANGED runs
    /\ UNCHANGED notRuns

\* clear()
Clear ==
    /\ Len(runs.limits) > 0
    /\ runs' = EmptyRuns
    /\ subset' = NoSubset
    /\ UNCHANGED notRuns

NextRuns == Add \/ GetRunsSubset \/ Clear

SpecRuns == InitRuns /\ [][NextRuns]_vars

(***************************************************************************)
(* C2: after get_runs_subset(offset, length, out) into an empty out, with  *)
(* offset and length inside the domain, out.get_value(i - offset) equals   *)
(* original.get_value(i) for every i in [offset, offset + length).         *)
(***************************************************************************)
SubsetAgreesWithOriginal ==
    subset # NoSubset =>
        \A i \in subset.offset..(subset.offset + subset.length - 1) :
            get_value(subset.out, i - subset.offset) = get_value(runs, i)

\* A subset that starts inside a later run and spans a run boundary.
SubsetSpansRuns ==
    /\ subset # NoSubset
    /\ subset.offset > 0
    /\ Len(runs.limits) >= 3
    /\ Len(subset.out.limits) >= 2
    /\ subset.out.values[1] # subset.out.values[2]

(***************************************************************************)
(* C13: after get_runs_subset(offset, length, out) into an empty out, with *)
(* strictly increasing limits and offset and length inside the domain, the *)
(* limits of out are strictly increasing, every one of them is > 0 (no     *)
(* empty run, also when a limit of the original equals offset) and the     *)
(* last one equals length.                                                 *)
(***************************************************************************)
SubsetLimitsArePositive ==
    subset # NoSubset =>
        /\ Len(subset.out.limits) > 0
        /\ \A j \in 1..Len(subset.out.limits) : subset.out.limits[j] > 0
        /\ \A j \in 1..(Len(subset.out.limits) - 1) :
              subset.out.limits[j] < subset.out.limits[j + 1]
        /\ Last(subset.out.limits) = subset.length

\* The slots whose limit is > index.
SlotsAfter(vr, index) == {j \in 0..(Len(vr.limits) - 1) : vr.limits[j + 1] > index}

\* The linear scan: the smallest slot whose limit is > index.
FirstSlotAfter(vr, index) ==
    CHOOSE j \in SlotsAfter(vr, index) : \A m \in SlotsAfter(vr, index) : j <= m

(***************************************************************************)
(* C14: for strictly increasing limits and every index k with              *)
(* 0 <= k < limits.back(), get_run_index(k) is the smallest j with         *)
(* limits[j] > k, and get_value(k) is values[j].                           *)
(***************************************************************************)
RunIndexIsFirstSlotAfter ==
    Len(runs.limits) > 0 =>
        \A k \in 0..(get_limit(runs) - 1) :
            /\ SlotsAfter(runs, k) # {}
            /\ get_run_index(runs, k) = FirstSlotAfter(runs, k)
            /\ get_value(runs, k) = runs.values[FirstSlotAfter(runs, k) + 1]

\* Four runs, one of them wider than one index, with values that change
\* from run to run: the search goes left and right.
FourRunsOfUnequalWidth ==
    /\ Len(runs.limits) = 4
    /\ get_limit(runs) > 4
    /\ \A j \in 1..3 : runs.values[j] # runs.values[j + 1]

(***************************************************************************)
(* E. BiDi line engine                                                     *)
(***************************************************************************)
\* Resolved levels of the model's paragraphs (UBiDiLevel values).
Levels == 0..2

\* The levels the repeated pattern of a long paragraph is drawn from.
PatternLevels == 0..2

\* Directional properties, by what setTrailingWSStart asks of them: "B" is a
\* block separator, "WS" any other member of MASK_WS, "L" anything else.
DirProps == {"L", "WS", "B"}

IsMaskWS(dirProp) == dirProp \in {"WS", "B"}

UBIDI_LTR == "LTR"

UBIDI_RTL == "RTL"

UBIDI_MIXED == "MIXED"

\* (UBiDiDirection)(x & 1)
DirectionFromBit(bit) == IF bit = 0 THEN UBIDI_LTR ELSE UBIDI_RTL

\* A Run: logicalStart is kept as the index and the odd bit that the code
\* packs into one int32 (MAKE_INDEX_ODD_PAIR, GET_INDEX, IS_EVEN_RUN).
MakeRun(index, odd, visualLimit, insertRemove) ==
    [logicalStart |-> index, odd |-> odd, visualLimit |-> visualLimit,
     insertRemove |-> insertRemove]

\* ADD_ODD_BIT_FROM_LEVEL(x, level): x |= (level & 1) << 31
ADD_ODD_BIT_FROM_LEVEL(run, level) ==
    [run EXCEPT !.odd = IF level % 2 = 1 THEN 1 ELSE run.odd]

IS_EVEN_RUN(run) == run.odd = 0

\* pBiDi->levels[i] of a line: the pointer is into the paragraph's array at
\* start (u8bidi_set_line), or at the line's own levelsMemory once
\* u8bidi_get_levels has set it there.  The dirProps always alias.
LineLevel(ln, i) ==
    IF ln.levelsInMemory THEN ln.levelsMemory[i + 1]
    ELSE para.levels[ln.start + i + 1]

LineDirProp(ln, i) == para.dirProps[ln.start + i + 1]

\* get_para_level_internal for an object that holds one paragraph.
get_para_level_internal(obj, index) == obj.paraLevel

\* setTrailingWSStart: the second and third loops, from start downwards.
RECURSIVE SkipTrailingWS(_, _)
SkipTrailingWS(ln, start) ==
    IF start > 0 /\ IsMaskWS(LineDirProp(ln, start - 1))
    THEN SkipTrailingWS(ln, start - 1)
    ELSE start

RECURSIVE MergeParaLevelRun(_, _)
MergeParaLevelRun(ln, start) ==
    IF start > 0 /\ LineLevel(ln, start - 1) = ln.paraLevel
    THEN MergeParaLevelRun(ln, start - 1)
    ELSE start

setTrailingWSStart_no_merge(ln) ==
    IF LineDirProp(ln, ln.length - 1) = "B"
    THEN ln.length
    ELSE SkipTrailingWS(ln, ln.length)

\* setTrailingWSStart: the value it stores in pBiDi->trailingWSStart.
setTrailingWSStart(ln) ==
    IF LineDirProp(ln, ln.length - 1) = "B"
    THEN ln.length
    ELSE MergeParaLevelRun(ln, SkipTrailingWS(ln, ln.length))

\* u8bidi_set_line, mixed parent: the loop that compares the parities of
\* levels[1..trailingWSStart-1] with that of levels[0].
RECURSIVE SameParityUpTo(_, _, _, _)
SameParityUpTo(ln, i, trailingWSStart, level) ==
    IF i = trailingWSStart THEN DirectionFromBit(level)
    ELSE IF LineLevel(ln, i) % 2 # level THEN UBIDI_MIXED
    ELSE SameParityUpTo(ln, i + 1, trailingWSStart, level)

\* A direction that ignores the level of the trailing whitespace.
MixedLineDirection_ignores_trailing(ln, trailingWSStart) ==
    IF trailingWSStart = 0
    THEN DirectionFromBit(ln.paraLevel % 2)
    ELSE SameParityUpTo(ln, 1, trailingWSStart, LineLevel(ln, 0) % 2)

MixedLineDirection(ln, trailingWSStart) ==
    IF trailingWSStart = 0
    THEN DirectionFromBit(ln.paraLevel % 2)
    ELSE LET level == LineLevel(ln, 0) % 2
         IN  IF trailingWSStart < ln.length /\ ln.paraLevel % 2 # level
             THEN UBIDI_MIXED
             ELSE SameParityUpTo(ln, 1, trailingWSStart, level)

\* ZWNJ_CHAR, LRE_CHAR and LRI_CHAR of u8bidi_impl.hpp.
ZWNJ_CHAR == 8204

LRE_CHAR == 8234

LRI_CHAR == 8294

\* IS_BIDI_CONTROL_CHAR(c) of u8bidi_impl.hpp:
\*   ((uint32_t)(c)&0xfffffffc)==ZWNJ_CHAR || (uint32_t)((c)-LRE_CHAR)<5
\*   || (uint32_t)((c)-LRI_CHAR)<4
\* c is an int; a negative value is a uint32_t above every bound here.
IS_BIDI_CONTROL_CHAR(c) ==
    \/ (c >= 0 /\ c - (c % 4) = ZWNJ_CHAR)
    \/ (c - LRE_CHAR >= 0 /\ c - LRE_CHAR < 5)
    \/ (c - LRI_CHAR >= 0 /\ c - LRI_CHAR < 4)

\* text[j] of an object: text is a const char*, so the byte is promoted to
\* int as a signed or as an unsigned char, as the build has it.
TextChar(obj, j) ==
    IF obj.charIsSigned /\ obj.text[j + 1] > 127 THEN obj.text[j + 1] - 256
    ELSE obj.text[j + 1]

\* u8bidi_set_line: the loop for(j=start; j<limit; j++) that counts the
\* controls of the line.
RECURSIVE CountLineControls(_, _, _)
CountLineControls(j, limit, controlCount) ==
    IF j >= limit THEN controlCount
    ELSE CountLineControls(j + 1, limit,
                           IF IS_BIDI_CONTROL_CHAR(TextChar(para, j))
                           THEN controlCount + 1 ELSE controlCount)

LineControlCount(start, limit) ==
    IF para.controlCount > 0 THEN CountLineControls(start, limit, 0) ELSE 0

\* u8bidi_set_line with arguments that pass its checks: the line object.
u8bidi_set_line(start, limit) ==
    LET base == [start |-> start,
                 length |-> limit - start,
                 resultLength |-> limit - start - LineControlCount(start, limit),
                 originalLength |-> limit - start,
                 paraLevel |-> get_para_level_internal(para, start),
                 controlCount |-> LineControlCount(start, limit),
                 insertPoints |-> 0,
                 runCount |-> -1,
                 runs |-> <<>>,
                 direction |-> para.direction,
                 trailingWSStart |-> 0,
                 levelsInMemory |-> FALSE,
                 levelsMemory |-> <<>>]
    IN  IF para.direction # UBIDI_MIXED
        THEN [base EXCEPT !.trailingWSStart =
                 IF para.trailingWSStart <= start THEN 0
                 ELSE IF para.trailingWSStart < limit
                      THEN para.trailingWSStart - start
                      ELSE limit - start]
        ELSE LET tws == setTrailingWSStart(base)
                 dir == MixedLineDirection(base, tws)
             IN  CASE dir = UBIDI_LTR ->
                        [base EXCEPT !.direction = dir,
                                     !.paraLevel = 2 * ((base.paraLevel + 1) \div 2),
                                     !.trailingWSStart = 0]
                   [] dir = UBIDI_RTL ->
                        [base EXCEPT !.direction = dir,
                                     !.paraLevel = 2 * (base.paraLevel \div 2) + 1,
                                     !.trailingWSStart = 0]
                   [] OTHER ->
                        [base EXCEPT !.direction = dir, !.trailingWSStart = tws]

\* A u8bidi_get_level_at that always reads the levels array.
u8bidi_get_level_at_stored(ln, charIndex) ==
    IF charIndex < 0 \/ ln.length <= charIndex THEN 0
    ELSE LineLevel(ln, charIndex)

\* u8bidi_get_level_at on a line object.
u8bidi_get_level_at(ln, charIndex) ==
    IF charIndex < 0 \/ ln.length <= charIndex THEN 0
    ELSE IF ln.direction # UBIDI_MIXED \/ charIndex >= ln.trailingWSStart
         THEN get_para_level_internal(ln, charIndex)
         ELSE LineLevel(ln, charIndex)

\* getSingleRun
getSingleRun(ln, level) ==
    [ln EXCEPT !.runCount = 1,
               !.runs = <<MakeRun(0, level % 2, ln.length, 0)>>]

\* u8bidi_get_runs: the loop that counts the runs in [0, limit); level
\* starts as UBIDI_DEFAULT_LTR, which is no valid level.
RECURSIVE CountLevelRuns(_, _, _, _, _)
CountLevelRuns(ln, i, limit, level, runCount) ==
    IF i >= limit THEN runCount
    ELSE IF LineLevel(ln, i) # level
         THEN CountLevelRuns(ln, i + 1, limit, LineLevel(ln, i), runCount + 1)
         ELSE CountLevelRuns(ln, i + 1, limit, level, runCount)

\* The inner while(++i<limit && levels[i]==level) {}: the run's limit.
RECURSIVE RunLimit(_, _, _, _)
RunLimit(ln, i, limit, level) ==
    IF i + 1 < limit /\ LineLevel(ln, i + 1) = level
    THEN RunLimit(ln, i + 1, limit, level)
    ELSE i + 1

\* The do-while that sets the runs: visualLimit holds the run's length.
RECURSIVE SetLevelRuns(_, _, _, _)
SetLevelRuns(ln, i, limit, rs) ==
    LET level == LineLevel(ln, i)
        next  == RunLimit(ln, i, limit, level)
        rs2   == Append(rs, MakeRun(i, 0, next - i, 0))
    IN  IF next < limit THEN SetLevelRuns(ln, next, limit, rs2) ELSE rs2

RunLevels(ln, rs) == [k \in 1..Len(rs) |-> LineLevel(ln, rs[k].logicalStart)]

MinRunLevel(ln, rs, start) ==
    LET lv == RunLevels(ln, rs)
    IN  CHOOSE m \in {lv[k] : k \in 1..Len(lv)} \cup {start} :
            /\ m <= start
            /\ \A k \in 1..Len(lv) : m <= lv[k]

MaxRunLevel(ln, rs) ==
    LET lv == RunLevels(ln, rs)
    IN  CHOOSE m \in {lv[k] : k \in 1..Len(lv)} \cup {0} :
            /\ m >= 0
            /\ \A k \in 1..Len(lv) : m >= lv[k]

UBIDI_MAX_EXPLICIT_LEVEL == 125

\* Swap the sequence of runs from firstRun to endRun (0-based, inclusive).
ReverseRuns(rs, firstRun, endRun) ==
    [k \in 1..Len(rs) |->
        IF firstRun + 1 <= k /\ k <= endRun + 1
        THEN rs[firstRun + endRun + 2 - k]
        ELSE rs[k]]

\* reorderLine: while(firstRun<runCount && levels[...]<maxLevel) ++firstRun
RECURSIVE FirstRunAtLevel(_, _, _, _, _)
FirstRunAtLevel(ln, rs, firstRun, runCount, maxLevel) ==
    IF firstRun < runCount /\ LineLevel(ln, rs[firstRun + 1].logicalStart) < maxLevel
    THEN FirstRunAtLevel(ln, rs, firstRun + 1, runCount, maxLevel)
    ELSE firstRun

\* reorderLine: for(limitRun=firstRun; ++limitRun<runCount && levels[...]>=maxLevel;) {}
RECURSIVE LimitRunAtLevel(_, _, _, _, _)
LimitRunAtLevel(ln, rs, limitRun, runCount, maxLevel) ==
    IF limitRun + 1 < runCount
       /\ LineLevel(ln, rs[limitRun + 2].logicalStart) >= maxLevel
    THEN LimitRunAtLevel(ln, rs, limitRun + 1, runCount, maxLevel)
    ELSE limitRun + 1

\* reorderLine: the for(;;) over all sequences of runs at >= maxLevel.
RECURSIVE ReorderSequences(_, _, _, _, _)
ReorderSequences(ln, rs, firstRun0, runCount, maxLevel) ==
    LET firstRun == FirstRunAtLevel(ln, rs, firstRun0, runCount, maxLevel)
    IN  IF firstRun >= runCount THEN rs
        ELSE LET limitRun == LimitRunAtLevel(ln, rs, firstRun, runCount, maxLevel)
                 rs2      == ReverseRuns(rs, firstRun, limitRun - 1)
             IN  IF limitRun = runCount THEN rs2
                 ELSE ReorderSequences(ln, rs2, limitRun + 1, runCount, maxLevel)

\* reorderLine: while(--maxLevel>=minLevel), maxLevel already decremented.
RECURSIVE ReorderLevels(_, _, _, _, _)
ReorderLevels(ln, rs, runCount, minLevel, maxLevel) ==
    IF maxLevel >= minLevel
    THEN ReorderLevels(ln, ReorderSequences(ln, rs, 0, runCount, maxLevel),
                       runCount, minLevel, maxLevel - 1)
    ELSE rs

\* A reorderLine without the extra reorder-all for an odd minimum level.
reorderLine_no_reverse_all(ln, rs, minLevel0, maxLevel) ==
    IF maxLevel <= (IF minLevel0 % 2 = 1 THEN minLevel0 ELSE minLevel0 + 1)
    THEN rs
    ELSE LET runCount == IF ln.trailingWSStart < ln.length
                         THEN Len(rs) - 1 ELSE Len(rs)
         IN  ReorderLevels(ln, rs, runCount, minLevel0 + 1, maxLevel - 1)

\* reorderLine(pBiDi, minLevel, maxLevel) on the runs array rs.
reorderLine(ln, rs, minLevel0, maxLevel) ==
    IF maxLevel <= (IF minLevel0 % 2 = 1 THEN minLevel0 ELSE minLevel0 + 1)
    THEN rs
    ELSE LET minLevel == minLevel0 + 1
             runCount == IF ln.trailingWSStart < ln.length
                         THEN Len(rs) - 1 ELSE Len(rs)
             rs2      == ReorderLevels(ln, rs, runCount, minLevel, maxLevel - 1)
         IN  IF minLevel % 2 = 0
             THEN \* both branches leave runCount at the index of the last run
                  LET lastRun == IF ln.trailingWSStart = ln.length
                                 THEN runCount - 1 ELSE runCount
                  IN  ReverseRuns(rs2, 0, lastRun)
             ELSE rs2

\* u8bidi_get_runs: add the direction flags and turn the lengths in
\* visualLimit into limits.
RECURSIVE AddOddBitsAndLimits(_, _, _, _)
AddOddBitsAndLimits(ln, rs, i, limit) ==
    IF i >= Len(rs) THEN rs
    ELSE LET r   == ADD_ODD_BIT_FROM_LEVEL(rs[i + 1],
                                           LineLevel(ln, rs[i + 1].logicalStart))
             lim == limit + r.visualLimit
         IN  AddOddBitsAndLimits(ln,
                 [rs EXCEPT ![i + 1] = [r EXCEPT !.visualLimit = lim]],
                 i + 1, lim)

\* The insertRemove field of the trailing WS run is never assigned.
Uninitialized == "uninitialized"

UBIDI_DEFAULT_LTR == 254

\* u8bidi_get_runs (no inserted marks, no removed controls).
u8bidi_get_runs(ln) ==
    IF ln.runCount >= 0 THEN ln
    ELSE IF ln.direction # UBIDI_MIXED THEN getSingleRun(ln, ln.paraLevel)
    ELSE LET length == ln.length
             limit  == ln.trailingWSStart
             counted == CountLevelRuns(ln, 0, limit, UBIDI_DEFAULT_LTR, 0)
         IN  IF counted = 1 /\ limit = length
             THEN getSingleRun(ln, LineLevel(ln, 0))
             ELSE LET runCount == IF limit < length THEN counted + 1 ELSE counted
                      levelRuns == SetLevelRuns(ln, 0, limit, <<>>)
                      runIndex == Len(levelRuns)
                      minLevel0 == MinRunLevel(ln, levelRuns, UBIDI_MAX_EXPLICIT_LEVEL + 1)
                      maxLevel == MaxRunLevel(ln, levelRuns)
                      rs == IF limit < length
                            THEN Append(levelRuns,
                                        MakeRun(limit, 0, length - limit, Uninitialized))
                            ELSE levelRuns
                      minLevel == IF limit < length /\ ln.paraLevel < minLevel0
                                  THEN ln.paraLevel ELSE minLevel0
                      reordered == reorderLine(ln, rs, minLevel, maxLevel)
                      flagged == AddOddBitsAndLimits(ln, reordered, 0, 0)
                      final == IF runIndex < runCount
                               THEN LET trailingRun ==
                                            IF ln.paraLevel % 2 # 0 THEN 0 ELSE runIndex
                                    IN  [flagged EXCEPT ![trailingRun + 1] =
                                            ADD_ODD_BIT_FROM_LEVEL(@, ln.paraLevel)]
                               ELSE flagged
                  IN  [ln EXCEPT !.runCount = runCount, !.runs = final]

UBIDI_MAP_NOWHERE == -1

\* u8bidi_get_visual_index, mixed line: the linear search over the runs.
RECURSIVE VisualIndexSearch(_, _, _, _)
VisualIndexSearch(ln, logicalIndex, i, visualStart) ==
    IF i >= ln.runCount THEN UBIDI_MAP_NOWHERE
    ELSE LET length == ln.runs[i + 1].visualLimit - visualStart
             offset == logicalIndex - ln.runs[i + 1].logicalStart
         IN  IF offset >= 0 /\ offset < length
             THEN IF IS_EVEN_RUN(ln.runs[i + 1])
                  THEN visualStart + offset
                  ELSE visualStart + length - offset - 1
             ELSE VisualIndexSearch(ln, logicalIndex, i + 1, visualStart + length)

\* u8bidi_get_visual_index on a line whose runs are set (no inserted marks,
\* no removed controls).
u8bidi_get_visual_index(ln, logicalIndex) ==
    CASE ln.direction = UBIDI_LTR -> logicalIndex
      [] ln.direction = UBIDI_RTL -> ln.length - logicalIndex - 1
      [] OTHER -> VisualIndexSearch(ln, logicalIndex, 0, 0)

\* u8bidi_get_logical_index: for(i=0; visualIndex>=runs[i].visualLimit; ++i) {}
RECURSIVE LinearRunSearch(_, _, _)
LinearRunSearch(ln, visualIndex, i) ==
    IF visualIndex >= ln.runs[i + 1].visualLimit
    THEN LinearRunSearch(ln, visualIndex, i + 1)
    ELSE i

\* u8bidi_get_logical_index: the binary search for the run.
RECURSIVE BinaryRunSearch(_, _, _, _)
BinaryRunSearch(ln, visualIndex, begin, limit) ==
    LET i == (begin + limit) \div 2
    IN  IF visualIndex >= ln.runs[i + 1].visualLimit
        THEN BinaryRunSearch(ln, visualIndex, i + 1, limit)
        ELSE IF i = 0 \/ visualIndex >= ln.runs[i].visualLimit
             THEN i
             ELSE BinaryRunSearch(ln, visualIndex, begin, i)

LinearSearchMaxRuns == 10

FindVisualRun(ln, visualIndex) ==
    IF ln.runCount <= LinearSearchMaxRuns
    THEN LinearRunSearch(ln, visualIndex, 0)
    ELSE BinaryRunSearch(ln, visualIndex, 0, ln.runCount)

u8bidi_get_logical_index_ltr_only(ln, visualIndex) ==
    IF ln.insertPoints = 0 /\ ln.controlCount = 0 /\ ln.direction = UBIDI_LTR
    THEN visualIndex
    ELSE IF ln.insertPoints = 0 /\ ln.controlCount = 0 /\ ln.direction = UBIDI_RTL
    THEN ln.length - visualIndex - 1
    ELSE LET i == FindVisualRun(ln, visualIndex)
             run == ln.runs[i + 1]
         IN  run.logicalStart + (IF i > 0 THEN visualIndex - ln.runs[i].visualLimit
                                 ELSE visualIndex)

\* u8bidi_get_logical_index on a line whose runs are set (no inserted marks,
\* no removed controls).
u8bidi_get_logical_index(ln, visualIndex) ==
    IF ln.insertPoints = 0 /\ ln.controlCount = 0 /\ ln.direction = UBIDI_LTR
    THEN visualIndex
    ELSE IF ln.insertPoints = 0 /\ ln.controlCount = 0 /\ ln.direction = UBIDI_RTL
    THEN ln.length - visualIndex - 1
    ELSE LET i == FindVisualRun(ln, visualIndex)
             run == ln.runs[i + 1]
         IN  IF IS_EVEN_RUN(run)
             THEN run.logicalStart + (IF i > 0 THEN visualIndex - ln.runs[i].visualLimit
                                      ELSE visualIndex)
             ELSE run.logicalStart + run.visualLimit - visualIndex - 1

(***************************************************************************)
(* The paragraph objects the lines are cut from.  u8bidi_set_para is not   *)
(* part of this file: a paragraph is given by what it leaves in the        *)
(* object.  A uniform paragraph has every level at paraLevel and           *)
(* trailingWSStart 0; a mixed one has levels >= paraLevel.  A block        *)
(* separator can only end a paragraph.                                     *)
(***************************************************************************)
ParaLevels == {0, 1}

DirPropSeqs(n) ==
    {d \in [1..n -> DirProps] : \A i \in 1..(n - 1) : d[i] # "B"}

MakePara(paraLevel, direction, levels, dirProps, trailingWSStart) ==
    [length |-> Len(levels), paraLevel |-> paraLevel, direction |-> direction,
     levels |-> levels, dirProps |-> dirProps,
     trailingWSStart |-> trailingWSStart, controlCount |-> 0, insertPoints |-> 0,
     text |-> <<>>, charIsSigned |-> TRUE, paraLimits |-> <<Len(levels)>>]

MixedParas ==
    UNION {UNION {{MakePara(pl, UBIDI_MIXED, lv, dp, n) :
                      lv \in [1..n -> {l \in Levels : l >= pl}],
                      dp \in DirPropSeqs(n)} :
                  n \in 1..MaxLen} :
           pl \in ParaLevels}

UniformParas ==
    UNION {UNION {{MakePara(pl, DirectionFromBit(pl), [i \in 1..n |-> pl], dp, 0) :
                      dp \in DirPropSeqs(n)} :
                  n \in 1..MaxLen} :
           pl \in ParaLevels}

LongParas ==
    UNION {{MakePara(pl, UBIDI_MIXED,
                     [i \in 1..LongLen |-> pat[((i - 1) % PatternLen) + 1]],
                     [i \in 1..LongLen |-> IF i = LongLen THEN last ELSE "L"],
                     LongLen) :
               pat \in [1..PatternLen -> {l \in PatternLevels : l >= pl}],
               last \in {"L", "WS"}} :
           pl \in ParaLevels}

\* The UTF-8 form of a codepoint below U+10000.
U8Bytes(cp) ==
    IF cp < 128 THEN <<cp>>
    ELSE IF cp < 2048 THEN <<192 + (cp \div 64), 128 + (cp % 64)>>
    ELSE <<224 + (cp \div 4096), 128 + ((cp \div 64) % 64), 128 + (cp % 64)>>

RECURSIVE U8Encode(_)
U8Encode(cps) == IF cps = <<>> THEN <<>> ELSE U8Bytes(Head(cps)) \o U8Encode(Tail(cps))

\* The paragraph of the text abc, three Hebrew letters (U+05D0..U+05D2, two
\* bytes each in UTF-8) and def at paragraph level 0.  The indices of an
\* object are byte offsets into its text, so the Hebrew letters hold the
\* six indices 3..8, at level 1.
HebrewText == U8Encode(<<97, 98, 99, 1488, 1489, 1490, 100, 101, 102>>)

HebrewPara ==
    [MakePara(0, UBIDI_MIXED,
              [i \in 1..Len(HebrewText) |-> IF HebrewText[i] < 128 THEN 0 ELSE 1],
              [i \in 1..Len(HebrewText) |-> "L"], Len(HebrewText))
     EXCEPT !.text = HebrewText]

Paras == MixedParas \cup UniformParas \cup LongParas \cup {HebrewPara}

InitBidiVars ==
    /\ para \in Paras
    /\ line = NoLine
    /\ bidiOut = NoOut

InitBidi ==
    /\ InitBidiVars
    /\ InitRunsIdle
    /\ InitFontIdle
    /\ InitBoxIdle

\* The lines cut from a paragraph: every range of a short paragraph; of a
\* long one, the ranges that drop at most one character at either end.
LineRanges(p) ==
    {r \in (0..(p.length - 1)) \X (1..p.length) :
        /\ r[1] < r[2]
        /\ p.length > MaxLen => (r[1] <= 1 /\ r[2] >= p.length - 1)}

\* u8bidi_set_line(pParaBiDi, start, limit, pLineBiDi) with a valid range.
SetLine ==
    /\ para # NoPara
    /\ \E r \in LineRanges(para) : line' = u8bidi_set_line(r[1], r[2])
    /\ bidiOut' = NoOut
    /\ UNCHANGED para
    /\ UNCHANGED notBidi

\* u8bidi_count_runs: materialises the runs of the line.
CountRuns ==
    /\ line # NoLine
    /\ line.runCount < 0
    /\ line' = u8bidi_get_runs(line)
    /\ bidiOut' = [op |-> "count", arg |-> 0, res |-> line'.runCount]
    /\ UNCHANGED para
    /\ UNCHANGED notBidi

\* u8bidi_get_visual_index(pBiDi, logicalIndex): the runs are materialised
\* only on a mixed line.
GetVisualIndex ==
    /\ line # NoLine
    /\ \E logicalIndex \in 0..(line.length - 1) :
        /\ line' = IF line.direction = UBIDI_MIXED THEN u8bidi_get_runs(line) ELSE line
        /\ bidiOut' = [op |-> "visual", arg |-> logicalIndex,
                       res |-> u8bidi_get_visual_index(line', logicalIndex)]
    /\ UNCHANGED para
    /\ UNCHANGED notBidi

\* u8bidi_get_logical_index(pBiDi, visualIndex): the trivial cases return
\* before the runs are asked for.
GetLogicalIndex ==
    /\ line # NoLine
    /\ \E visualIndex \in 0..(line.resultLength - 1) :
        /\ line' = IF line.insertPoints = 0 /\ line.controlCount = 0
                      /\ line.direction # UBIDI_MIXED
                   THEN line ELSE u8bidi_get_runs(line)
        /\ bidiOut' = [op |-> "logical", arg |-> visualIndex,
                       res |-> u8bidi_get_logical_index(line', visualIndex)]
    /\ UNCHANGED para
    /\ UNCHANGED notBidi

\* u8bidi_get_level_at(pBiDi, charIndex) on the line.
GetLevelAt ==
    /\ line # NoLine
    /\ \E charIndex \in 0..(line.length - 1) :
        bidiOut' = [op |-> "level", arg |-> charIndex,
                    res |-> u8bidi_get_level_at(line, charIndex)]
    /\ UNCHANGED <<para, line>>
    /\ UNCHANGED notBidi

NextBidi == SetLine \/ CountRuns \/ GetVisualIndex \/ GetLogicalIndex \/ GetLevelAt

SpecBidi == InitBidi /\ [][NextBidi]_vars

RunsAvailable(ln) == ln.direction # UBIDI_MIXED \/ ln.runCount >= 0

\* The line u8bidi_set_line makes of the range [start, limit) of the
\* paragraph.
LineOf(r) == u8bidi_set_line(r[1], r[2])

\* The trailing whitespace start setTrailingWSStart computes for the line,
\* before the direction of the line decides whether it is kept.
ComputedTrailingWSStart(r) ==
    setTrailingWSStart([LineOf(r) EXCEPT !.paraLevel = get_para_level_internal(para, r[1])])

\* The levels before the trailing whitespace do not share one parity, or
\* they do and it is not the parity of the paragraph level while there is
\* trailing whitespace.
MixedByLevels(r) ==
    LET ln == LineOf(r)
        tws == ComputedTrailingWSStart(r)
        paraParity == get_para_level_internal(para, r[1]) % 2
    IN  \/ \E i, j \in 0..(tws - 1) : LineLevel(ln, i) % 2 # LineLevel(ln, j) % 2
        \/ /\ tws > 0
           /\ tws < ln.length
           /\ LineLevel(ln, 0) % 2 # paraParity

u8bidi_get_visual_run(ln, runIndex) ==
    LET got == u8bidi_get_runs(ln)
        run == got.runs[runIndex + 1]
    IN  [direction |-> DirectionFromBit(run.odd),
         logicalStart |-> run.logicalStart,
         length |-> IF runIndex > 0
                    THEN run.visualLimit - got.runs[runIndex].visualLimit
                    ELSE run.visualLimit]

\* C34: in a mixed line with trailing whitespace, the runs hold exactly one
\* run for [trailingWSStart, length); u8bidi_get_visual_run reports it with
\* the direction of paraLevel, and it is the last visual run when paraLevel
\* is even and the first when it is odd.
TrailingWSRunAtParaLevel ==
    (line # NoLine /\ line.direction = UBIDI_MIXED /\ line.trailingWSStart < line.length) =>
        LET got == u8bidi_get_runs(line)
            wsRuns == {k \in 0..(got.runCount - 1) :
                          u8bidi_get_visual_run(line, k).logicalStart
                              >= line.trailingWSStart}
            wsRun == IF line.paraLevel % 2 = 0 THEN got.runCount - 1 ELSE 0
            run == u8bidi_get_visual_run(line, wsRun)
        IN  /\ wsRuns = {wsRun}
            /\ run.logicalStart = line.trailingWSStart
            /\ run.length = line.length - line.trailingWSStart
            /\ run.direction = DirectionFromBit(line.paraLevel % 2)


(***************************************************************************)
(* C22: on every line made by u8bidi_set_line, u8bidi_get_level_at(i) is   *)
(* the line's paraLevel for every i in [trailingWSStart, length), and on a *)
(* mixed line it is levels[i] for every i < trailingWSStart.               *)
(***************************************************************************)
LevelAtFollowsTrailingWS ==
    line # NoLine =>
        \A i \in 0..(line.length - 1) :
            /\ i >= line.trailingWSStart =>
                   u8bidi_get_level_at(line, i) = line.paraLevel
            /\ (line.direction = UBIDI_MIXED /\ i < line.trailingWSStart) =>
                   u8bidi_get_level_at(line, i) = LineLevel(line, i)

\* The level was asked of a character in the trailing whitespace of a mixed
\* line whose stored level is not the paragraph level.
LevelAskedInTrailingWS ==
    /\ line # NoLine
    /\ line.direction = UBIDI_MIXED
    /\ bidiOut.op = "level"
    /\ bidiOut.arg >= line.trailingWSStart
    /\ LineLevel(line, bidiOut.arg) # line.paraLevel
    /\ bidiOut.res = line.paraLevel

\* The first character of the whitespace a line ends in.
TrailingWhitespaceStart(ln) == SkipTrailingWS(ln, ln.length)

\* The line ends in whitespace, all of it at the paragraph level, and not in
\* a block separator.
EndsInWhitespaceAtParaLevel(ln) ==
    /\ LineDirProp(ln, ln.length - 1) = "WS"
    /\ \A i \in TrailingWhitespaceStart(ln)..(ln.length - 1) :
           LineLevel(ln, i) = ln.paraLevel

(***************************************************************************)
(* C23: on a mixed line that ends in whitespace at the paragraph level and *)
(* not in a block separator, trailingWSStart is the index of the first     *)
(* character of that whitespace; on a mixed line whose last dirProp is a   *)
(* block separator, trailingWSStart is the length.                         *)
(***************************************************************************)
TrailingWSStartsAtWhitespace ==
    (line # NoLine /\ line.direction = UBIDI_MIXED) =>
        /\ EndsInWhitespaceAtParaLevel(line) =>
               line.trailingWSStart = TrailingWhitespaceStart(line)
        /\ LineDirProp(line, line.length - 1) = "B" =>
               line.trailingWSStart = line.length

(***************************************************************************)
(* C24: on the single line over abc, three Hebrew letters and def at       *)
(* paragraph level 0, get_runs gives three visual runs in the order abc    *)
(* (LTR), the Hebrew letters (RTL), def (LTR), and                         *)
(* u8bidi_get_visual_index(3), the index of the first Hebrew letter, is 5. *)
(***************************************************************************)
HebrewLineVisualIndex ==
    (para = HebrewPara /\ line # NoLine /\ line.start = 0
        /\ line.length = para.length) =>
        LET ln == u8bidi_get_runs(line)
        IN  /\ ln.runCount = 3
            /\ [k \in 1..3 |-> <<ln.runs[k].logicalStart, ln.runs[k].odd>>]
                   = <<(<<0, 0>>), (<<3, 1>>), (<<9, 0>>)>>
            /\ u8bidi_get_visual_index(ln, 3) = 5

(***************************************************************************)
(* C1: on a line with no inserted marks and no removed controls (uniform   *)
(* LTR, uniform RTL or mixed, with any trailing-whitespace run),           *)
(* u8bidi_get_logical_index(u8bidi_get_visual_index(k)) = k for every k    *)
(* in [0, length).                                                         *)
(***************************************************************************)
BidiInverse ==
    (line # NoLine /\ RunsAvailable(line)
        /\ line.insertPoints = 0 /\ line.controlCount = 0) =>
        \A k \in 0..(line.length - 1) :
            u8bidi_get_logical_index(line, u8bidi_get_visual_index(line, k)) = k

\* A mixed line of more than ten runs, asked for the logical index of a
\* visual index that is not its own logical index.
BidiInverseOnManyRuns ==
    /\ line # NoLine
    /\ line.direction = UBIDI_MIXED
    /\ line.runCount > LinearSearchMaxRuns
    /\ bidiOut.op = "logical"
    /\ bidiOut.res # bidiOut.arg
    /\ u8bidi_get_visual_index(line, bidiOut.res) = bidiOut.arg

(***************************************************************************)
(* The reference line reorder, UBA rule L2, on the levels the line's       *)
(* characters have: levels[i] before trailingWSStart, paraLevel from there *)
(* on.  From the highest level down to the lowest odd level, every maximal *)
(* sequence of characters at that level or higher is reversed.             *)
(***************************************************************************)
EffectiveLevels(ln) ==
    [i \in 1..ln.length |->
        IF ln.direction # UBIDI_MIXED \/ i - 1 >= ln.trailingWSStart
        THEN ln.paraLevel
        ELSE LineLevel(ln, i - 1)]

SeqMax(s) == CHOOSE m \in {s[k] : k \in 1..Len(s)} : \A k \in 1..Len(s) : m >= s[k]

\* One pass of L2: order is the visual order so far (logical indices).
L2Pass(order, e, lvl) ==
    LET n == Len(order)
        high(p) == e[order[p] + 1] >= lvl
        segStart(p) == CHOOSE a \in 1..p :
                          /\ \A q \in a..p : high(q)
                          /\ a > 1 => ~high(a - 1)
        segEnd(p) == CHOOSE b \in p..n :
                          /\ \A q \in p..b : high(q)
                          /\ b < n => ~high(b + 1)
    IN  [p \in 1..n |-> IF high(p) THEN order[segStart(p) + segEnd(p) - p]
                        ELSE order[p]]

\* The lowest odd level of the line (above every level when none is odd).
LowestOdd(e) ==
    LET odds == {e[k] : k \in 1..Len(e)} \cap {l \in 0..SeqMax(e) : l % 2 = 1}
    IN  IF odds = {} THEN SeqMax(e) + 1
        ELSE CHOOSE m \in odds : \A o \in odds : m <= o

RECURSIVE L2Down(_, _, _, _)
L2Down(order, e, lvl, lowest) ==
    IF lvl < lowest THEN order
    ELSE L2Down(L2Pass(order, e, lvl), e, lvl - 1, lowest)

ReferenceL2(e) ==
    L2Down([p \in 1..Len(e) |-> p - 1], e, SeqMax(e), LowestOdd(e))

\* The start of the logical run of character i: the first character of the
\* maximal sequence of equal levels around it.
LogicalRunStart(e, i) ==
    CHOOSE a \in 0..i :
        /\ \A q \in a..i : e[q + 1] = e[i + 1]
        /\ a > 0 => e[a] # e[i + 1]

\* The runs of a visual character order, in visual order.
RECURSIVE Collapse(_, _)
Collapse(s, acc) ==
    IF s = <<>> THEN acc
    ELSE IF acc # <<>> /\ Last(acc) = Head(s)
         THEN Collapse(Tail(s), acc)
         ELSE Collapse(Tail(s), Append(acc, Head(s)))

ReferenceRunOrder(ln) ==
    LET e == EffectiveLevels(ln)
        order == ReferenceL2(e)
    IN  Collapse([p \in 1..Len(order) |-> LogicalRunStart(e, order[p])], <<>>)

\* The logical starts of the runs of the line, in visual order.
VisualRunOrder(ln) == [k \in 1..ln.runCount |-> ln.runs[k].logicalStart]

(***************************************************************************)
(* C7: on a mixed line whose runs u8bidi_get_runs has set (with or without *)
(* a trailing-whitespace run at paraLevel), the visual order of the runs   *)
(* is the order rule L2 gives.                                             *)
(***************************************************************************)
ReorderMatchesL2 ==
    (line # NoLine /\ line.direction = UBIDI_MIXED /\ line.runCount >= 0) =>
        VisualRunOrder(line) = ReferenceRunOrder(line)

\* A line with a trailing WS run and runs at three levels that reorderLine
\* has moved.
ReorderedWithTrailingWS ==
    /\ line # NoLine
    /\ line.direction = UBIDI_MIXED
    /\ line.runCount >= 3
    /\ line.trailingWSStart < line.length
    /\ VisualRunOrder(line) # [k \in 1..line.runCount |-> VisualRunOrder(line)[1] + k - 1]
    /\ \E k \in 1..(line.runCount - 1) :
          line.runs[k].logicalStart > line.runs[k + 1].logicalStart

(***************************************************************************)
(* u8bidi_set_line with its argument checks, on paragraph objects with a   *)
(* UTF-8 text and on objects that hold two paragraphs.                     *)
(***************************************************************************)
\* The texts of the paragraphs, as codepoints: the letter a (U+0061), LRM
\* (U+200E), LRE (U+202A) and LRI (U+2066), alone and in pairs.
ControlTexts ==
    {<<97>>, <<8206>>, <<8234>>, <<8294>>, <<97, 97>>, <<97, 8206>>, <<8234, 97>>,
     <<8294, 8206>>}

\* The bidi control codepoints: U+200C..U+200F, U+202A..U+202E and
\* U+2066..U+2069.
BidiControlCodepoints == (8204..8207) \cup (8234..8238) \cup (8294..8297)

\* A left-to-right paragraph over a text, as u8bidi_set_para leaves it when
\* it counts the controls for removal: controlCount is the number of control
\* codepoints of the text.  The bytes of a control are boundary neutrals,
\* which are members of MASK_WS.
ControlPara(cps, charIsSigned) ==
    LET text == U8Encode(cps)
    IN  [MakePara(0, UBIDI_LTR, [i \in 1..Len(text) |-> 0],
                  [i \in 1..Len(text) |-> IF text[i] < 128 THEN "L" ELSE "WS"], 0)
         EXCEPT !.text = text,
                !.charIsSigned = charIsSigned,
                !.controlCount =
                    Cardinality({i \in 1..Len(cps) : cps[i] \in BidiControlCodepoints})]

ControlParas ==
    {ControlPara(cps, charIsSigned) :
        cps \in ControlTexts,
        charIsSigned \in BOOLEAN}

\* Objects that hold two paragraphs, the first of them ended by a block
\* separator.
TwoParas ==
    {[MakePara(pl, DirectionFromBit(pl), [i \in 1..3 |-> pl], <<"L", "B", dp>>, 0)
      EXCEPT !.paraLimits = <<2, 3>>] : pl \in ParaLevels, dp \in {"L", "WS"}}

SetLineParas == ControlParas \cup TwoParas

U_ZERO_ERROR == "U_ZERO_ERROR"

U_FAILURE(code) == code # U_ZERO_ERROR

\* IS_VALID_PARA: the object is one that u8bidi_set_para has filled.
IS_VALID_PARA(obj) == obj # NoPara

\* u8bidi_get_paragraph: the index of the paragraph that holds charIndex.
u8bidi_get_paragraph(obj, charIndex) ==
    CHOOSE k \in 1..Len(obj.paraLimits) :
        /\ obj.paraLimits[k] > charIndex
        /\ \A m \in 1..(k - 1) : obj.paraLimits[m] <= charIndex

\* No range taken as one that crosses a paragraph boundary.
CrossesParagraph_never(obj, start, limit) == FALSE

\* "the line crosses a paragraph boundary"
CrossesParagraph(obj, start, limit) ==
    u8bidi_get_paragraph(obj, start) # u8bidi_get_paragraph(obj, limit - 1)

\* u8bidi_set_line from its entry: the argument checks, then the line.  The
\* result is the line object, the paragraph object and *pErrorCode after the
\* call; lineNull tells that pLineBiDi is a null pointer.
u8bidi_set_line_args(start, limit, lineNull, errorCode) ==
    LET Fails(code) == [line |-> line, para |-> para, errorCode |-> code]
    IN  IF U_FAILURE(errorCode) THEN Fails(errorCode)
        ELSE IF ~IS_VALID_PARA(para) THEN Fails("U_INVALID_STATE_ERROR")
        ELSE IF start < 0 \/ start >= limit THEN Fails("U_ILLEGAL_ARGUMENT_ERROR")
        ELSE IF limit < 0 \/ limit >= para.length + 1
             THEN Fails("U_ILLEGAL_ARGUMENT_ERROR")
        ELSE IF lineNull THEN Fails("U_ILLEGAL_ARGUMENT_ERROR")
        ELSE IF CrossesParagraph(para, start, limit)
             THEN Fails("U_ILLEGAL_ARGUMENT_ERROR")
        ELSE [line |-> u8bidi_set_line(start, limit), para |-> para,
              errorCode |-> errorCode]

\* The calls of u8bidi_set_line: every start and limit from one before the
\* text to one past it, with and without a line object, with a clean and
\* with a failing error code.
SetLineRequests ==
    LET n == IF para = NoPara THEN 1 ELSE para.length
    IN  [start : (-1)..n, limit : (-1)..(n + 1), lineNull : BOOLEAN,
         errorCode : {U_ZERO_ERROR, "U_MEMORY_ALLOCATION_ERROR"}]

InitSetLine ==
    /\ para \in SetLineParas \cup {NoPara}
    /\ line = NoLine
    /\ bidiOut = NoOut
    /\ InitRunsIdle
    /\ InitFontIdle
    /\ InitBoxIdle

\* u8bidi_set_line(pParaBiDi, start, limit, pLineBiDi, pErrorCode).
RequestLine ==
    /\ \E req \in SetLineRequests :
         LET r == u8bidi_set_line_args(req.start, req.limit, req.lineNull, req.errorCode)
         IN  /\ line' = r.line
             /\ para' = r.para
             /\ bidiOut' = [op |-> "set_line", arg |-> req.start, res |-> r.errorCode]
    /\ UNCHANGED notBidi

NextSetLine == RequestLine \/ GetVisualIndex

SpecSetLine == InitSetLine /\ [][NextSetLine]_vars

\* The request is one of those the claim names as invalid.
InvalidRequest(req) ==
    \/ U_FAILURE(req.errorCode)
    \/ ~IS_VALID_PARA(para)
    \/ req.lineNull
    \/ req.start < 0
    \/ req.start >= req.limit
    \/ req.limit > para.length
    \/ u8bidi_get_paragraph(para, req.start) # u8bidi_get_paragraph(para, req.limit - 1)

(***************************************************************************)
(* C15: u8bidi_set_line with start < 0, start >= limit, limit beyond the   *)
(* paragraph's length, a null line object, an invalid paragraph object, a  *)
(* failing error code or a range that crosses a paragraph boundary leaves  *)
(* a failing error code and changes neither the line object nor the        *)
(* paragraph object.                                                       *)
(***************************************************************************)
InvalidRequestChangesNothing ==
    \A req \in SetLineRequests :
        InvalidRequest(req) =>
            LET r == u8bidi_set_line_args(req.start, req.limit, req.lineNull,
                                          req.errorCode)
            IN  /\ U_FAILURE(r.errorCode)
                /\ r.line = line
                /\ r.para = para

\* A line has been set on an object of two paragraphs, and a later call with
\* range from the start of the first paragraph and a clean error code has
\* returned U_ILLEGAL_ARGUMENT_ERROR.
CrossingRequestRefused ==
    /\ line # NoLine
    /\ para # NoPara
    /\ Len(para.paraLimits) = 2
    /\ bidiOut.op = "set_line"
    /\ bidiOut.arg = 0
    /\ bidiOut.res = "U_ILLEGAL_ARGUMENT_ERROR"

\* The offsets of the line's text, relative to the line, at which a bidi
\* control codepoint is encoded within the line.
LineControlPositions(ln) ==
    {k \in 0..(ln.length - 3) :
        LET b0 == para.text[ln.start + k + 1]
            b1 == para.text[ln.start + k + 2]
            b2 == para.text[ln.start + k + 3]
        IN  /\ b0 >= 224 /\ b0 < 240
            /\ ((b0 - 224) * 4096 + (b1 - 128) * 64 + (b2 - 128)) \in BidiControlCodepoints}

(***************************************************************************)
(* C16: for a paragraph that counted controls for removal, u8bidi_set_line *)
(* sets the line's controlCount to the number of bidi control codepoints   *)
(* encoded in [start, limit), and the visual index of the position of each *)
(* of them is UBIDI_MAP_NOWHERE: a removed control.                        *)
(***************************************************************************)
ControlsCountedByCodepoint ==
    (para # NoPara /\ line # NoLine /\ para.controlCount > 0) =>
        /\ line.controlCount = Cardinality(LineControlPositions(line))
        /\ \A k \in LineControlPositions(line) :
              u8bidi_get_visual_index(line, k) = UBIDI_MAP_NOWHERE

(***************************************************************************)
(* F. Font registry                                                        *)
(***************************************************************************)
\* The largest number of codepoints of a text handed to get_sub_font.
MaxTextLen == 2

\* FontFace{} and FontFamily{}: the invalid handle.
InvalidFace == -1

Weights == {"REGULAR", "BOLD"}

Styles == {"NORMAL", "ITALIC"}

AllScripts == {"Latn", "Hebr"}

\* The codepoints of the texts, with the number of bytes of their UTF-8 form.
Codepoints == {"x", "y", "z"}

U8Length(c) == CASE c = "x" -> 1 [] c = "y" -> 2 [] OTHER -> 3

\* What the face files hold: "fbad" is a file FreeType cannot open, the
\* others have a glyph for one codepoint each; no face has a glyph for "z".
FaceLoads(name) == name # "fbad"

FaceGlyphs(name) == CASE name = "fx" -> {"x"} [] name = "fy" -> {"y"} [] OTHER -> {}

\* The registry as one value.
Registry ==
    [faces |-> g_faces, facesByName |-> g_facesByName,
     familyData |-> g_familyData, familiesByName |-> g_familiesByName]

\* A value-initialized FamilyData.
NewFamilyData ==
    [lookup |-> [c \in Weights \X Styles |-> InvalidFace],
     linkedFamilies |-> <<>>, fallbackFamilies |-> <<>>,
     scripts |-> {}, initialized |-> FALSE]

\* Find in a name map.
MapHas(map, name) == \E e \in map : e.name = name

MapGet(map, name) == (CHOOSE e \in map : e.name = name).handle

\* Handles are 0-based indices into the vectors.
FamilyOf(reg, family) == reg.familyData[family + 1]

get_or_add_family(reg, name) ==
    IF MapHas(reg.familiesByName, name)
    THEN [reg |-> reg, handle |-> MapGet(reg.familiesByName, name)]
    ELSE LET result == Len(reg.familyData)
         IN  [reg |-> [reg EXCEPT
                        !.familiesByName = @ \cup {[name |-> name, handle |-> result]},
                        !.familyData = Append(@, NewFamilyData)],
              handle |-> result]

get_or_add_face(reg, faceInfo) ==
    IF MapHas(reg.facesByName, faceInfo.name)
    THEN [reg |-> reg, handle |-> MapGet(reg.facesByName, faceInfo.name)]
    ELSE LET result == Len(reg.faces)
         IN  [reg |-> [reg EXCEPT
                        !.facesByName = @ \cup {[name |-> faceInfo.name, handle |-> result]},
                        !.faces = Append(@, [name |-> faceInfo.name])],
              handle |-> result]

family_is_initialized(reg, family) == FamilyOf(reg, family).initialized

\* The loops over pLinkedFamilies and pFallbackFamilies: get_or_add_family on
\* each name, the handle appended to the family's list (field).
RECURSIVE AddFamilyList(_, _, _, _, _)
AddFamilyList(reg, family, field, names, i) ==
    IF i > Len(names) THEN reg
    ELSE LET a == get_or_add_family(reg, names[i])
             r == [a.reg EXCEPT !.familyData[family + 1][field] = Append(@, a.handle)]
         IN  AddFamilyList(r, family, field, names, i + 1)

\* The loop over pFaces: st is [reg, defaultFace].
RECURSIVE AddFaces(_, _, _, _)
AddFaces(st, family, faces, i) ==
    IF i > Len(faces) THEN st
    ELSE LET faceInfo == faces[i]
             a == get_or_add_face(st.reg, faceInfo)
             face == a.handle
             r == [a.reg EXCEPT
                     !.familyData[family + 1].lookup[<<faceInfo.weight, faceInfo.style>>] = face]
             d == IF face # InvalidFace
                  THEN IF faceInfo.weight = "REGULAR" /\ faceInfo.style = "NORMAL"
                       THEN face
                       ELSE IF st.defaultFace = InvalidFace THEN face ELSE st.defaultFace
                  ELSE st.defaultFace
         IN  AddFaces([reg |-> r, defaultFace |-> d], family, faces, i + 1)

\* The default face applied to no cell.
ApplyDefaultFace_skipped(lookup, defaultFace) == lookup

\* "Apply default face to missing faces".
ApplyDefaultFace(lookup, defaultFace) ==
    [c \in Weights \X Styles |-> IF lookup[c] = InvalidFace THEN defaultFace ELSE lookup[c]]


\* register_family, "Initialize scripts".
InitializeScripts(reg, family, info) ==
    [reg EXCEPT !.familyData[family + 1].scripts =
        IF info.scriptCodes # {} THEN @ \cup info.scriptCodes ELSE AllScripts]

\* register_family, "Initialize linked families" and "Initialize fallback
\* families".
InitializeLinks(reg, family, info) ==
    AddFamilyList(AddFamilyList(reg, family, "linkedFamilies", info.linkedFamilies, 1),
                  family, "fallbackFamilies", info.fallbackFamilies, 1)

\* register_family with null pFaces: what was written is taken back.
ResetFamily(reg, family) ==
    [reg EXCEPT !.familyData[family + 1].scripts = {},
                !.familyData[family + 1].linkedFamilies = <<>>,
                !.familyData[family + 1].fallbackFamilies = <<>>]

\* register_family, the loop over the faces and "Apply default face to
\* missing faces".
InitializeFaces(reg, family, info) ==
    LET f == AddFaces([reg |-> reg, defaultFace |-> InvalidFace], family, info.faces, 1)
    IN  [f.reg EXCEPT !.familyData[family + 1].lookup = ApplyDefaultFace(@, f.defaultFace)]

MarkInitialized(reg, family) == [reg EXCEPT !.familyData[family + 1].initialized = TRUE]

\* register_family after the initialized check ("Initialize scripts" to the
\* end).  info is [name, scriptCodes, linkedFamilies, fallbackFamilies,
\* pFacesNull, faces]; faceCount is Len(info.faces) and scriptCodeCount the
\* number of script codes.
InitializeFamily(reg, family, info) ==
    LET r1 == InitializeScripts(reg, family, info)
        r3 == InitializeLinks(r1, family, info)
    IN  IF info.pFacesNull
        THEN [reg |-> ResetFamily(r3, family), result |-> "NO_FACES"]
        ELSE [reg |-> MarkInitialized(InitializeFaces(r3, family, info), family),
              result |-> "NONE"]

\* register_family without the initialized check.
register_family_reloads(reg, info) ==
    LET a == get_or_add_family(reg, info.name)
    IN  InitializeFamily(a.reg, a.handle, info)

\* FontRegistry::register_family.
register_family(reg, info) ==
    LET a == get_or_add_family(reg, info.name)
        family == a.handle
    IN  IF family_is_initialized(a.reg, family)
        THEN [reg |-> a.reg, result |-> "ALREADY_LOADED"]
        ELSE InitializeFamily(a.reg, family, info)

\* FontData values: the data of a loaded face, or the empty FontData.
EmptyFontData == [kind |-> "empty", face |-> InvalidFace]

LoadedFontData(face) == [kind |-> "data", face |-> face]

Crash == [kind |-> "crash", face |-> InvalidFace]

\* What get_font_data(face, size) can do with an invalid face: the asserts
\* abort a debug build; a release build indexes g_faces out of bounds, and
\* the bytes it finds fail to load or load as some face.
InvalidFaceOutcomes(reg) ==
    {Crash, EmptyFontData} \cup {LoadedFontData(f) : f \in 0..(Len(reg.faces) - 1)}

\* FontRegistry::get_font_data(face, size), as far as the data it returns
\* goes; ub is the outcome taken when the face is invalid.
get_font_data(reg, face, ub) ==
    IF face = InvalidFace THEN ub
    ELSE IF FaceLoads(reg.faces[face + 1].name) THEN LoadedFontData(face)
    ELSE EmptyFontData

\* FontData::has_codepoint.
has_codepoint(reg, fontData, c) ==
    /\ fontData.kind = "data"
    /\ c \in FaceGlyphs(reg.faces[fontData.face + 1].name)

FamilyData_get_face(familyData, weight, style) == familyData.lookup[<<weight, style>>]

FamilyData_has_script(familyData, script) == script \in familyData.scripts

\* The loop of get_font_for_script over the linked families, from index i.
RECURSIVE LinkedFaceForScript(_, _, _, _, _, _)
LinkedFaceForScript(reg, family, weight, style, script, i) ==
    LET linkedFamilies == FamilyOf(reg, family).linkedFamilies
    IN  IF i > Len(linkedFamilies)
        THEN FamilyData_get_face(FamilyOf(reg, family), weight, style)
        ELSE LET linked == FamilyOf(reg, linkedFamilies[i])
             IN  IF family_is_initialized(reg, linkedFamilies[i])
                    /\ FamilyData_has_script(linked, script)
                 THEN FamilyData_get_face(linked, weight, style)
                 ELSE LinkedFaceForScript(reg, family, weight, style, script, i + 1)

\* The base face looked for in the linked families first, whether or not the
\* family itself covers the script.
get_font_for_script_linked_first(reg, family, weight, style, script) ==
    LinkedFaceForScript(reg, family, weight, style, script, 1)

get_font_for_script(reg, family, weight, style, script) ==
    IF FamilyData_has_script(FamilyOf(reg, family), script)
    THEN FamilyData_get_face(FamilyOf(reg, family), weight, style)
    ELSE LinkedFaceForScript(reg, family, weight, style, script, 1)

\* The loop of find_compatible_font over the fallback families, from index
\* i.  The result is [face, fontData]: the face returned and what the
\* fontData out-parameter holds.
RECURSIVE FallbackSearch(_, _, _, _, _, _, _)
FallbackSearch(reg, font, codepoint, fallbackFamilies, i, fontData, ub) ==
    IF i > Len(fallbackFamilies) THEN [face |-> InvalidFace, fontData |-> fontData]
    ELSE LET fam == fallbackFamilies[i]
         IN  IF ~family_is_initialized(reg, fam)
             THEN FallbackSearch(reg, font, codepoint, fallbackFamilies, i + 1, fontData, ub)
             ELSE
               LET face == FamilyData_get_face(FamilyOf(reg, fam), font.weight, font.style)
                   fd == get_font_data(reg, face, ub)
               IN  IF fd = Crash THEN [face |-> InvalidFace, fontData |-> Crash]
                   ELSE IF fd.kind # "data"
                   THEN FallbackSearch(reg, font, codepoint, fallbackFamilies, i + 1, fd, ub)
                   ELSE IF has_codepoint(reg, fd, codepoint)
                   THEN [face |-> face, fontData |-> fd]
                   ELSE FallbackSearch(reg, font, codepoint, fallbackFamilies, i + 1, fd, ub)

find_compatible_font(reg, font, codepoint, baseFont, fallbackFamilies, fontData, ub) ==
    IF baseFont = InvalidFace THEN [face |-> InvalidFace, fontData |-> fontData]
    ELSE LET fd == get_font_data(reg, baseFont, ub)
         IN  IF fd.kind # "data" THEN [face |-> InvalidFace, fontData |-> fd]
             ELSE IF has_codepoint(reg, fd, codepoint)
             THEN [face |-> baseFont, fontData |-> fd]
             ELSE FallbackSearch(reg, font, codepoint, fallbackFamilies, 1, fd, ub)


\* Texts are sequences of codepoints; offsets are byte offsets into their
\* UTF-8 form.  CpStart(text, j) is the offset of the j-th codepoint, and
\* CpStart(text, Len(text) + 1) the length in bytes.
RECURSIVE CpStart(_, _)
CpStart(text, j) == IF j <= 1 THEN 0 ELSE CpStart(text, j - 1) + U8Length(text[j - 1])

U8Len(text) == CpStart(text, Len(text) + 1)

\* The codepoint that starts at a byte offset.
CpIndexAt(text, offset) == CHOOSE j \in 1..(Len(text) + 1) : CpStart(text, j) = offset

\* The first loop of get_sub_font: UTEXT_NEXT32 from codepoint j until a
\* codepoint some face renders or the end (U_SENTINEL).  The result is
\* [next, face, fontData], next being the iterator's position afterwards.
RECURSIVE FirstRenderable(_, _, _, _, _, _, _, _, _)
FirstRenderable(reg, font, text, j, jEnd, baseFont, fallbackFamilies, fontData, ub) ==
    IF j >= jEnd THEN [next |-> jEnd, face |-> InvalidFace, fontData |-> fontData]
    ELSE LET r == find_compatible_font(reg, font, text[j], baseFont, fallbackFamilies,
                                       fontData, ub)
         IN  IF r.fontData = Crash THEN [next |-> j + 1, face |-> InvalidFace, fontData |-> Crash]
             ELSE IF r.face # InvalidFace
             THEN [next |-> j + 1, face |-> r.face, fontData |-> r.fontData]
             ELSE FirstRenderable(reg, font, text, j + 1, jEnd, baseFont,
                                  fallbackFamilies, r.fontData, ub)

\* The second loop: the first codepoint from j on that fontData has no glyph
\* for, or jEnd.
RECURSIVE RenderableLimit(_, _, _, _, _)
RenderableLimit(reg, text, j, jEnd, fontData) ==
    IF j >= jEnd THEN jEnd
    ELSE IF ~has_codepoint(reg, fontData, text[j]) THEN j
    ELSE RenderableLimit(reg, text, j + 1, jEnd, fontData)

NoFontData == [kind |-> "uninitialized", face |-> InvalidFace]

\* A get_sub_font that always answers with the base face.
get_sub_font_base_only(reg, font, text, offset, limit, script, ub) ==
    LET baseFont == get_font_for_script(reg, font.family, font.weight, font.style, script)
    IN  [face |-> baseFont, size |-> font.size,
         offset |-> CpStart(text, CpIndexAt(text, offset) + 1),
         chosen |-> FALSE, crashed |-> FALSE]

\* get_sub_font(font, iter, offset, limit, script): the face and size
\* returned and the new value of offset.  The iterator is over the bytes
\* [offset, limit) of the text, so its native index is relative to offset.
\* chosen tells whether the face is one find_compatible_font chose
\* (targetFace is valid).
get_sub_font(reg, font, text, offset, limit, script, ub) ==
    LET baseFont == get_font_for_script(reg, font.family, font.weight, font.style, script)
        fallbackFamilies == FamilyOf(reg, font.family).fallbackFamilies
        jEnd == CpIndexAt(text, limit)
        first == FirstRenderable(reg, font, text, CpIndexAt(text, offset), jEnd,
                                 baseFont, fallbackFamilies, NoFontData, ub)
        targetFace == first.face
    IN  IF first.fontData = Crash
        THEN [face |-> InvalidFace, size |-> font.size, offset |-> offset,
              chosen |-> FALSE, crashed |-> TRUE]
        ELSE IF targetFace = InvalidFace
        THEN [face |-> baseFont, size |-> font.size, offset |-> limit,
              chosen |-> FALSE, crashed |-> FALSE]
        ELSE
          LET k == RenderableLimit(reg, text, first.next, jEnd, first.fontData)
              idx == CpStart(text, k) - offset
          IN  IF k >= jEnd
              THEN [face |-> targetFace, size |-> font.size, offset |-> limit,
                    chosen |-> TRUE, crashed |-> FALSE]
              ELSE [face |-> targetFace, size |-> font.size, offset |-> offset + idx,
                    chosen |-> TRUE, crashed |-> FALSE]

(***************************************************************************)
(* The registry's clients: registrations, and the layout's walk over a     *)
(* text span, which calls get_sub_font until the offset reaches the limit. *)
(***************************************************************************)
FontSizes == {16}

\* The weight and style of the fonts the walks ask for.
WalkFaces == {<<"REGULAR", "NORMAL">>, <<"BOLD", "ITALIC">>}

\* The face lists of the registrations.
Face(name, weight, style) == [name |-> name, weight |-> weight, style |-> style]

BaseFaceLists ==
    {<<>>, <<Face("fx", "REGULAR", "NORMAL")>>, <<Face("fbad", "REGULAR", "NORMAL")>>,
     <<Face("fy", "BOLD", "ITALIC"), Face("fx", "REGULAR", "NORMAL")>>}

FamilyInfo(name, scriptCodes, linked, fallback, pFacesNull, faces) ==
    [name |-> name, scriptCodes |-> scriptCodes, linkedFamilies |-> linked,
     fallbackFamilies |-> fallback, pFacesNull |-> pFacesNull, faces |-> faces]

\* Family "A" names "B" and "C" as its linked and its fallback families;
\* "B" and "C" have none of their own.
FamilyInfos ==
    {FamilyInfo("A", sc, <<"B", "C">>, <<"B", "C">>, FALSE, fl) :
        sc \in {{}, {"Latn"}}, fl \in BaseFaceLists}
    \cup {FamilyInfo("B", {}, <<>>, <<>>, FALSE, <<Face("fy", "REGULAR", "NORMAL")>>),
          FamilyInfo("B", {"Hebr"}, <<>>, <<>>, FALSE, <<Face("fx", "BOLD", "ITALIC")>>),
          FamilyInfo("B", {"Hebr"}, <<>>, <<>>, FALSE, <<Face("fbad", "REGULAR", "NORMAL")>>),
          FamilyInfo("C", {}, <<>>, <<>>, FALSE, <<Face("fy", "REGULAR", "NORMAL")>>),
          FamilyInfo("C", {"Hebr"}, <<>>, <<>>, FALSE, <<Face("fy", "BOLD", "ITALIC")>>),
          FamilyInfo("C", {}, <<>>, <<>>, FALSE, <<>>),
          FamilyInfo("C", {"Latn"}, <<>>, <<>>, FALSE,
                     <<Face("fy", "BOLD", "ITALIC"), Face("fx", "BOLD", "NORMAL")>>)}
    \cup {FamilyInfo(n, {"Latn"}, <<"C">>, <<"C">>, TRUE, <<>>) : n \in {"A", "B"}}

\* The family of the fonts the walks ask for.
WalkFamilies == {"A"}

\* FontRegistry::get_family.
get_family(reg, name) ==
    IF MapHas(reg.familiesByName, name) THEN MapGet(reg.familiesByName, name)
    ELSE InvalidFace

\* The names of the initialized families.
InitializedNames(reg) ==
    {e.name : e \in {x \in reg.familiesByName : family_is_initialized(reg, x.handle)}}

\* The application registers its families in the order of their names.
InNameOrder(reg, name) ==
    \A n \in InitializedNames(reg) :
        <<n, name>> \in {<<"A", "A">>, <<"A", "B">>, <<"A", "C">>,
                         <<"B", "B">>, <<"B", "C">>, <<"C", "C">>}

Texts == UNION {[1..n -> Codepoints] : n \in 1..MaxTextLen}

InitFontVars == InitFontIdle

InitFont ==
    /\ InitFontVars
    /\ InitRunsIdle
    /\ InitBidiIdle
    /\ InitBoxIdle

RegisterFamily ==
    /\ walk = NoWalk
    /\ \E info \in FamilyInfos :
         LET r == register_family(Registry, info)
         IN  /\ InNameOrder(Registry, info.name)
             /\ g_faces' = r.reg.faces
             /\ g_facesByName' = r.reg.facesByName
             /\ g_familyData' = r.reg.familyData
             /\ g_familiesByName' = r.reg.familiesByName
             /\ registerResult' = r.result
    /\ UNCHANGED <<walk, notFont>>

\* The layout starts on a span of text in one font and script.  The font's
\* family is valid and initialized (the asserts of get_sub_font).
StartWalk ==
    /\ walk = NoWalk
    /\ \E name \in WalkFamilies, wf \in WalkFaces, size \in FontSizes,
          text \in Texts, script \in AllScripts :
         /\ get_family(Registry, name) # InvalidFace
         /\ family_is_initialized(Registry, get_family(Registry, name))
         /\ walk' = [status |-> "walking",
                     font |-> [family |-> get_family(Registry, name), weight |-> wf[1], style |-> wf[2],
                               size |-> size],
                     text |-> text, script |-> script,
                     offset |-> 0, limit |-> U8Len(text),
                     start |-> -1, face |-> InvalidFace, size |-> 0, chosen |-> FALSE]
    /\ registerResult' = "none"
    /\ UNCHANGED <<varsRegistry, notFont>>

\* One call of get_sub_font at the walk's offset; start keeps the offset the
\* call was made with.
GetSubFont ==
    /\ walk.status = "walking"
    /\ walk.offset < walk.limit
    /\ \E ub \in InvalidFaceOutcomes(Registry) :
         LET r == get_sub_font(Registry, walk.font, walk.text, walk.offset, walk.limit,
                               walk.script, ub)
         IN  walk' = [walk EXCEPT !.status = IF r.crashed THEN "crashed" ELSE "walking",
                                  !.start = walk.offset, !.offset = r.offset,
                                  !.face = r.face, !.size = r.size,
                                  !.chosen = r.chosen]
    /\ registerResult' = "none"
    /\ UNCHANGED <<varsRegistry, notFont>>

\* The walk is over: the span is covered, or the process is gone.
EndWalk ==
    /\ walk.status # "none"
    /\ walk.status = "crashed" \/ walk.offset >= walk.limit
    /\ walk' = NoWalk
    /\ registerResult' = "none"
    /\ UNCHANGED <<varsRegistry, notFont>>

NextFont == RegisterFamily \/ StartWalk \/ GetSubFont \/ EndWalk

SpecFont == InitFont /\ [][NextFont]_vars


(***************************************************************************)
(* C5, C6: the font fallback walk.                                         *)
(***************************************************************************)
\* A get_sub_font call has returned to the walk.
SubFontReturned == walk.status = "walking" /\ walk.start >= 0

\* The face get_sub_font resolves as the base face of the walk's font.
WalkBaseFace ==
    get_font_for_script(Registry, walk.font.family, walk.font.weight, walk.font.style,
                        walk.script)

\* The face is valid, its file loads and it has a glyph for the codepoint.
FaceHasGlyph(face, c) ==
    /\ face # InvalidFace
    /\ FaceLoads(g_faces[face + 1].name)
    /\ c \in FaceGlyphs(g_faces[face + 1].name)

\* The codepoints of the walk's text that start in the bytes [from, to).
CodepointsIn(from, to) ==
    {j \in 1..Len(walk.text) : from <= CpStart(walk.text, j) /\ CpStart(walk.text, j) < to}

(***************************************************************************)
(* C5: when every codepoint of the range [offset, limit) has a glyph in    *)
(* the resolved base face, one call of get_sub_font returns the base face  *)
(* and the font's size and sets offset to limit.                           *)
(***************************************************************************)
BaseCoveredIsOneSpan ==
    (/\ SubFontReturned
     /\ \A j \in CodepointsIn(walk.start, walk.limit) :
            FaceHasGlyph(WalkBaseFace, walk.text[j]))
    => /\ walk.face = WalkBaseFace
       /\ walk.size = walk.font.size
       /\ walk.offset = walk.limit

\* A range of two codepoints or more that the base face covers, the base
\* face being the face of a linked family.
BaseCoveredByLinkedFace ==
    /\ SubFontReturned
    /\ Cardinality(CodepointsIn(walk.start, walk.limit)) >= 2
    /\ \A j \in CodepointsIn(walk.start, walk.limit) :
           FaceHasGlyph(WalkBaseFace, walk.text[j])
    /\ WalkBaseFace # FamilyData_get_face(FamilyOf(Registry, walk.font.family),
                                          walk.font.weight, walk.font.style)
    /\ walk.offset = walk.limit

(***************************************************************************)
(* C6: when get_sub_font returns a face that find_compatible_font chose,   *)
(* every codepoint of the span [offset on entry, offset on return) has a   *)
(* glyph in that face, the first codepoints of the span included.          *)
(***************************************************************************)
SpanGlyphsInFace ==
    (SubFontReturned /\ walk.chosen) =>
        \A j \in CodepointsIn(walk.start, walk.offset) :
            FaceHasGlyph(walk.face, walk.text[j])

(***************************************************************************)
(* C17: every call of get_sub_font with offset < limit returns, with an    *)
(* offset greater than the one it was called with and at most limit; when  *)
(* no face renders any codepoint of the range it returns the base face and *)
(* the font's size with offset = limit.  The next call starts where this   *)
(* one ended, so the spans cover the range without gap or overlap.         *)
(***************************************************************************)
SubFontAdvances ==
    (walk.status = "walking" /\ walk.offset < walk.limit) =>
        \A ub \in InvalidFaceOutcomes(Registry) :
            LET r == get_sub_font(Registry, walk.font, walk.text, walk.offset,
                                  walk.limit, walk.script, ub)
            IN  /\ ~r.crashed
                /\ r.offset > walk.offset
                /\ r.offset <= walk.limit
                /\ r.size = walk.font.size
                /\ ~r.chosen => (r.offset = walk.limit /\ r.face = WalkBaseFace)

\* The fallback families of the walk's font, and the face each has for the
\* font's weight and style.
WalkFallbacks == FamilyOf(Registry, walk.font.family).fallbackFamilies

FallbackFace(i) ==
    FamilyData_get_face(FamilyOf(Registry, WalkFallbacks[i]), walk.font.weight,
                        walk.font.style)

\* The fallback families, by their place in the list, that are initialized
\* and whose face has a glyph for the codepoint.
FallbacksWithGlyph(c) ==
    {i \in 1..Len(WalkFallbacks) :
        /\ family_is_initialized(Registry, WalkFallbacks[i])
        /\ FaceHasGlyph(FallbackFace(i), c)}

\* The face the claim names for a codepoint: the base face if it has a
\* glyph, else the face of the first fallback family that has one, else
\* none.
NamedFace(c) ==
    IF FaceHasGlyph(WalkBaseFace, c) THEN WalkBaseFace
    ELSE IF FallbacksWithGlyph(c) = {} THEN InvalidFace
    ELSE FallbackFace(CHOOSE i \in FallbacksWithGlyph(c) :
                          \A m \in FallbacksWithGlyph(c) : i <= m)

(***************************************************************************)
(* C18: for a codepoint, find_compatible_font chooses the base face if it  *)
(* has a glyph, else the face of the first fallback family, in list order  *)
(* and skipping uninitialized families, whose face has a glyph; a face     *)
(* whose font data does not load, the base face included, counts as having *)
(* no glyph and the search goes on with the fallback families.             *)
(***************************************************************************)
CompatibleFontIsFirstWithGlyph ==
    walk.status = "walking" =>
        \A c \in Codepoints, ub \in InvalidFaceOutcomes(Registry) :
            LET r == find_compatible_font(Registry, walk.font, c, WalkBaseFace,
                                          WalkFallbacks, NoFontData, ub)
            IN  /\ r.fontData # Crash
                /\ r.face = NamedFace(c)

\* The linked families of a family, by their place in the list, that are
\* initialized and cover the script.
LinkedCovering(family, script) ==
    {i \in 1..Len(FamilyOf(Registry, family).linkedFamilies) :
        /\ family_is_initialized(Registry, FamilyOf(Registry, family).linkedFamilies[i])
        /\ script \in FamilyOf(Registry, FamilyOf(Registry, family).linkedFamilies[i]).scripts}

\* The base face the claim names.
NamedBaseFace(family, weight, style, script) ==
    IF script \in FamilyOf(Registry, family).scripts \/ LinkedCovering(family, script) = {}
    THEN FamilyOf(Registry, family).lookup[<<weight, style>>]
    ELSE LET first == CHOOSE i \in LinkedCovering(family, script) :
                          \A m \in LinkedCovering(family, script) : i <= m
         IN  FamilyOf(Registry, FamilyOf(Registry, family).linkedFamilies[first])
                .lookup[<<weight, style>>]

(***************************************************************************)
(* C19: the base face of (family, weight, style, script) is the family's   *)
(* own face if the family covers the script; else the face of the first    *)
(* linked family, in list order, that is initialized and covers the        *)
(* script; else the family's own face.                                     *)
(***************************************************************************)
BaseFaceIsResolvedInOrder ==
    \A family \in 0..(Len(g_familyData) - 1), weight \in Weights, style \in Styles,
       script \in AllScripts :
        family_is_initialized(Registry, family) =>
            get_font_for_script(Registry, family, weight, style, script)
                = NamedBaseFace(family, weight, style, script)

\* A get_sub_font call has returned for a script the font's family does not
\* cover: the first linked family is not initialized, and the base face is
\* the face of the second, which is not the family's own face.
BaseFaceFromSecondLinked ==
    /\ SubFontReturned
    /\ walk.script \notin FamilyOf(Registry, walk.font.family).scripts
    /\ LinkedCovering(walk.font.family, walk.script) = {2}
    /\ ~family_is_initialized(Registry,
                              FamilyOf(Registry, walk.font.family).linkedFamilies[1])
    /\ WalkBaseFace # FamilyData_get_face(FamilyOf(Registry, walk.font.family),
                                          walk.font.weight, walk.font.style)
    /\ WalkBaseFace # InvalidFace

(***************************************************************************)
(* The per-thread font data cache (FontContext::cache) of one thread.  An  *)
(* entry is [handle, owner]; the owner is a FontDataOwner: ftFace is the   *)
(* face the FreeType object was made from, size the member `size`, ftSize  *)
(* the size last requested from FreeType for that object.                  *)
(***************************************************************************)
CacheSizes == {12, 16}

\* FontDataOwner(const FontData&, uint32_t sizeIn), for data just sized to
\* sizeIn by FT_Request_Size.
FontDataOwner(fontData, sizeIn) ==
    [ftFace |-> fontData.face, size |-> sizeIn, ftSize |-> sizeIn]

\* A FontDataOwner whose members have their default initializers.
DefaultFontDataOwner == [ftFace |-> InvalidFace, size |-> 0, ftSize |-> 0]

\* FontDataOwner::operator=(FontDataOwner&&): the handles are swapped, the
\* strike-through metrics copied; size is not assigned.
FontDataOwner_move_assign(this, other) ==
    [this EXCEPT !.ftFace = other.ftFace, !.ftSize = other.ftSize]

\* FontDataOwner(FontDataOwner&&): default initializers, then move assignment.
FontDataOwner_move(other) == FontDataOwner_move_assign(DefaultFontDataOwner, other)

\* FontDataOwner::resize.
FontDataOwner_resize(owner, newSize) ==
    IF owner.size = newSize THEN owner
    ELSE [owner EXCEPT !.size = newSize, !.ftSize = newSize]

CacheHas(c, handle) == \E e \in c : e.handle = handle

CacheEntry(c, handle) == CHOOSE e \in c : e.handle = handle

\* cache.emplace(std::make_pair(handle, FontDataOwner(...))): the owner is
\* moved into the pair and the pair's owner into the map's node.
CacheEmplace(c, handle, owner) ==
    IF CacheHas(c, handle) THEN c
    ELSE c \cup {[handle |-> handle,
                  owner |-> FontDataOwner_move(FontDataOwner_move(owner))]}

\* FontRegistry::get_font_data(face, size) with the thread's cache: the
\* cache afterwards and the data returned.
FontRegistry_get_font_data(reg, c, face, size, ub) ==
    IF CacheHas(c, face)
    THEN LET e == CacheEntry(c, face)
             resized == FontDataOwner_resize(e.owner, size)
         IN  [cache |-> (c \ {e}) \cup {[e EXCEPT !.owner = resized]},
              fontData |-> LoadedFontData(resized.ftFace)]
    ELSE IF face = InvalidFace \/ size <= 0 THEN [cache |-> c, fontData |-> ub]
    ELSE [cache |-> IF FaceLoads(reg.faces[face + 1].name)
                    THEN CacheEmplace(c, face, FontDataOwner(LoadedFontData(face), size))
                    ELSE c,
          fontData |-> get_font_data(reg, face, ub)]

\* The thread asks for the data of a registered face at a size.
GetFontData ==
    /\ walk = NoWalk
    /\ \E face \in 0..(Len(g_faces) - 1), size \in CacheSizes :
         cache' = FontRegistry_get_font_data(Registry, cache, face, size, Crash).cache
    /\ UNCHANGED <<varsFont, notCache>>

NextCache == RegisterFamily \/ GetFontData

SpecCache == InitFont /\ [][NextCache]_vars

(***************************************************************************)
(* C21: after a get_font_data(face, size) call that returns non-empty      *)
(* data, the thread's cache has exactly one entry for the face, and the    *)
(* size the entry records is the size just requested, whether the entry    *)
(* was created by the call or resized by it.                               *)
(***************************************************************************)
CacheRecordsRequestedSize ==
    \A face \in 0..(Len(g_faces) - 1), size \in CacheSizes :
        LET r == FontRegistry_get_font_data(Registry, cache, face, size, Crash)
        IN  r.fontData.kind = "data" =>
                /\ Cardinality({e \in r.cache : e.handle = face}) = 1
                /\ CacheEntry(r.cache, face).owner.size = size

(***************************************************************************)
(* C11, C12, C20: register_family.  The claims are stated on the registry  *)
(* register_family is called with: register_family applied to it gives the *)
(* registry and the result it returns.                                     *)
(***************************************************************************)
\* The family record of a name in a registry.
FamilyNamed(reg, name) == FamilyOf(reg, get_family(reg, name))

\* The name is not the name of an initialized family of the registry.
NotLoaded(name) ==
    ~MapHas(g_familiesByName, name) \/ ~FamilyNamed(Registry, name).initialized

(***************************************************************************)
(* C11: register_family with an info that supplies no faces, by a null     *)
(* face list or by a face count of 0, for a family that is not loaded yet, *)
(* returns NO_FACES and leaves the family uninitialized, with no scripts   *)
(* and no linked or fallback families.                                     *)
(***************************************************************************)
NoFacesIsRejected ==
    \A info \in FamilyInfos :
        ((info.pFacesNull \/ Len(info.faces) = 0) /\ NotLoaded(info.name)) =>
            LET r == register_family(Registry, info)
            IN  /\ r.result = "NO_FACES"
                /\ ~FamilyNamed(r.reg, info.name).initialized
                /\ FamilyNamed(r.reg, info.name).scripts = {}
                /\ FamilyNamed(r.reg, info.name).linkedFamilies = <<>>
                /\ FamilyNamed(r.reg, info.name).fallbackFamilies = <<>>

(***************************************************************************)
(* C12: register_family for the name of a family that is initialized       *)
(* returns ALREADY_LOADED and leaves the faces, the families and the two   *)
(* name maps as they are, whatever the info holds.                         *)
(***************************************************************************)
AlreadyLoadedChangesNothing ==
    \A info \in FamilyInfos :
        ~NotLoaded(info.name) =>
            LET r == register_family(Registry, info)
            IN  /\ r.result = "ALREADY_LOADED"
                /\ r.reg = Registry

\* A second registration of a loaded family has returned ALREADY_LOADED,
\* and there are infos for that family with faces, with a null face list
\* and with scripts and families of their own.
LoadedFamilyRegisteredAgain ==
    /\ registerResult = "ALREADY_LOADED"
    /\ \E info \in FamilyInfos :
          /\ ~NotLoaded(info.name)
          /\ info.pFacesNull
    /\ \E info \in FamilyInfos :
          /\ ~NotLoaded(info.name)
          /\ Len(info.faces) > 1
          /\ info.scriptCodes # FamilyNamed(Registry, info.name).scripts

\* The faces of an info supplied for a cell of the table.
SuppliedFor(info, cell) ==
    {i \in 1..Len(info.faces) : <<info.faces[i].weight, info.faces[i].style>> = cell}

\* The last of them: a later face of the list overwrites the cell.
LastSupplied(info, cell) ==
    CHOOSE i \in SuppliedFor(info, cell) : \A j \in SuppliedFor(info, cell) : j <= i

\* The handle of the i-th face of an info in a registry.
SuppliedFace(reg, info, i) == MapGet(reg.facesByName, info.faces[i].name)

\* The default face the claim names: the supplied Regular/Normal face if
\* there is one, else the first supplied face.
NamedDefault(reg, info) ==
    IF SuppliedFor(info, <<"REGULAR", "NORMAL">>) # {}
    THEN SuppliedFace(reg, info, LastSupplied(info, <<"REGULAR", "NORMAL">>))
    ELSE SuppliedFace(reg, info, 1)

(***************************************************************************)
(* C20: register_family with an info of one face or more, for a family     *)
(* that is not loaded yet, returns NONE and leaves the family initialized  *)
(* with a valid face in every (weight, style) cell of its table: the face  *)
(* supplied for the cell if one was supplied, else the default face, which *)
(* is the supplied Regular/Normal face if there is one and else the first  *)
(* supplied face.                                                          *)
(***************************************************************************)
RegisteredTableIsFilled ==
    \A info \in FamilyInfos :
        (~info.pFacesNull /\ Len(info.faces) >= 1 /\ NotLoaded(info.name)) =>
            LET r == register_family(Registry, info)
                family == FamilyNamed(r.reg, info.name)
            IN  /\ r.result = "NONE"
                /\ family.initialized
                /\ \A cell \in Weights \X Styles :
                      /\ family.lookup[cell] # InvalidFace
                      /\ family.lookup[cell] \in 0..(Len(r.reg.faces) - 1)
                      /\ family.lookup[cell] =
                            IF SuppliedFor(info, cell) # {}
                            THEN SuppliedFace(r.reg, info, LastSupplied(info, cell))
                            ELSE NamedDefault(r.reg, info)

\* register_family has returned NONE for a family whose info named two
\* faces, neither of them Regular/Normal: the table holds both, and the
\* first of them in the cells the info left out.
TableFilledWithFirstFace ==
    /\ registerResult = "NONE"
    /\ MapHas(g_familiesByName, "C")
    /\ FamilyNamed(Registry, "C").initialized
    /\ FamilyNamed(Registry, "C").lookup[<<"BOLD", "ITALIC">>]
          # FamilyNamed(Registry, "C").lookup[<<"BOLD", "NORMAL">>]
    /\ FamilyNamed(Registry, "C").lookup[<<"REGULAR", "NORMAL">>]
          = FamilyNamed(Registry, "C").lookup[<<"BOLD", "ITALIC">>]

(***************************************************************************)
(* G. Text box editor (sample/text_box.cpp)                                *)
(*                                                                         *)
(* Texts are sequences of bytes.  The bytes are the letter "a", the space, *)
(* the line feed, and the two bytes "c3" "a9" of the letter e-acute.       *)
(***************************************************************************)
\* The longest text of a box, in bytes.
MaxBoxLen == 2

\* The largest cursor position: set_text leaves the cursor where it is, so
\* the cursor can pass the end of the text and grow without limit.
MaxCursor == 3

LF == "\n"

IsTrailByte(b) == b = "a9"

\* U8_APPEND_UNSAFE: the UTF-8 form of a codepoint.
U8Append(codepoint) == IF codepoint = "e-acute" THEN <<"c3", "a9">> ELSE <<codepoint>>

\* std::string::substr(pos) and substr(0, n), for positions within the text.
SubstrFrom(text, pos) == SubSeq(text, pos + 1, Len(text))

SubstrTo(text, n) == SubSeq(text, 1, n)

SetMin(S) == CHOOSE x \in S : \A y \in S : x <= y

SetMax(S) == CHOOSE x \in S : \A y \in S : x >= y

\* icu::BreakIterator::DONE.
DONE == -1

\* The character boundaries of a text: every offset that is not in the
\* middle of a codepoint.
Boundaries(text) == {p \in 0..Len(text) : p = Len(text) \/ ~IsTrailByte(text[p + 1])}

\* BreakIterator::following(offset): the first boundary after offset.
following(iter, offset) ==
    LET S == {p \in Boundaries(iter.text) : p > offset}
    IN  IF S = {} THEN DONE ELSE SetMin(S)

\* BreakIterator::preceding(offset): the last boundary before offset; an
\* offset past the end of the text gives the last boundary.
preceding(iter, offset) ==
    LET S == {p \in Boundaries(iter.text) : p < offset}
    IN  IF offset > Len(iter.text) THEN Len(iter.text)
        ELSE IF S = {} THEN DONE ELSE SetMax(S)

\* U8_GET(text, 0, i, size, c): the codepoint that holds byte i.  At i = size
\* it reads the terminator of the std::string.
U8Get(text, i) ==
    IF i >= Len(text) THEN "NUL"
    ELSE IF text[i + 1] \in {"c3", "a9"} THEN "e-acute"
    ELSE text[i + 1]

u_isWhitespace(c) == c \in {" ", LF}

is_line_break(c) == c = LF

(***************************************************************************)
(* The paragraph layout of a text (paragraph_layout.hpp): the text is not  *)
(* wrapped, so a line is a paragraph; every codepoint is one unit wide and *)
(* the lines run left to right.                                            *)
(***************************************************************************)
\* The offsets after a line feed: where the lines after line 0 start.
LineStartsAfterBreak(text) == {i \in 1..Len(text) : text[i] = LF}

LineCount(text) == Cardinality(LineStartsAfterBreak(text)) + 1

get_line_start_position(text, lineIndex) ==
    IF lineIndex = 0 THEN 0
    ELSE CHOOSE i \in LineStartsAfterBreak(text) :
            Cardinality({j \in LineStartsAfterBreak(text) : j < i}) = lineIndex - 1

get_line_end_position(text, lineIndex) ==
    IF lineIndex = LineCount(text) - 1 THEN Len(text)
    ELSE get_line_start_position(text, lineIndex + 1) - 1

\* The line that holds a cursor position.
LineOfCursor(text, cursor) ==
    Cardinality({i \in LineStartsAfterBreak(text) : i <= cursor})

\* The x of a boundary of a line: the codepoints between the line's start
\* and the boundary.
BoundaryX(text, lineIndex, p) ==
    Cardinality({q \in Boundaries(text) :
                    get_line_start_position(text, lineIndex) < q /\ q <= p})

calc_cursor_pixel_pos(text, cursor) ==
    LET lineIndex == LineOfCursor(text, cursor)
        p == IF cursor > get_line_end_position(text, lineIndex)
             THEN get_line_end_position(text, lineIndex) ELSE cursor
    IN  [x |-> BoundaryX(text, lineIndex, p), lineNumber |-> lineIndex]

\* The boundary of the line, among those the break iterator delivers, whose
\* x is closest to x; the first of them when two are as close.
find_closest_cursor_position(text, iter, lineIndex, x) ==
    LET S == {p \in Boundaries(iter.text) :
                 /\ get_line_start_position(text, lineIndex) <= p
                 /\ p <= get_line_end_position(text, lineIndex)}
        Dist(p) == IF BoundaryX(text, lineIndex, p) >= x
                   THEN BoundaryX(text, lineIndex, p) - x
                   ELSE x - BoundaryX(text, lineIndex, p)
        Best == {p \in S : \A q \in S : Dist(p) <= Dist(q)}
    IN  IF S = {} THEN get_line_start_position(text, lineIndex) ELSE SetMin(Best)

\* The line at a height; lines.size() when the height is below the last line.
get_closest_line_to_height(text, mouseY) ==
    IF mouseY >= LineCount(text) THEN LineCount(text) ELSE mouseY


(***************************************************************************)
(* The members of TextBox and the handlers.  The handlers are operators on *)
(* the state st of the translation unit: the boxes and the globals.        *)
(***************************************************************************)
BoxState ==
    [boxes |-> boxes, focused |-> g_focusedTextBox, isMouseDown |-> g_isMouseDown,
     clickCount |-> g_clickCount, lastClickPos |-> g_lastClickPos,
     cursorPos |-> g_cursorPos, iter |-> g_charBreakIter, crashed |-> crashed]

\* A TextBox after construction, with the flags its owner has set.
NewTextBox(editable, multiLine) ==
    [alive |-> TRUE, text |-> <<>>, cursor |-> 0, selectionStart |-> INVALID_VALUE,
     editable |-> editable, multiLine |-> multiLine,
     richText |-> FALSE, selectable |-> TRUE, textRects |-> <<>>]

NoOp == [type |-> "NONE", selectionMode |-> FALSE, mouseX |-> 0, mouseY |-> 0]

PostLayoutCursorMove(type, selectionMode) ==
    [type |-> type, selectionMode |-> selectionMode, mouseX |-> 0, mouseY |-> 0]

CursorToMouse(mouseX, mouseY, selectionMode) ==
    [type |-> "MOUSE_POSITION", selectionMode |-> selectionMode,
     mouseX |-> mouseX, mouseY |-> mouseY]

set_cursor_position_internal(st, b, pos, selectionMode) ==
    IF selectionMode
    THEN [st EXCEPT !.boxes[b].selectionStart =
                        IF @ = INVALID_VALUE THEN st.boxes[b].cursor ELSE @,
                    !.boxes[b].cursor = pos]
    ELSE [st EXCEPT !.boxes[b].selectionStart = INVALID_VALUE,
                    !.boxes[b].cursor = pos]

\* apply_cursor_move: the moves read the line and the x of g_cursorPos.
apply_cursor_move(text, iter, cursorPos, op, cursor) ==
    CASE op.type = "LINE_START" -> get_line_start_position(text, cursorPos.lineNumber)
      [] op.type = "LINE_END" -> get_line_end_position(text, cursorPos.lineNumber)
      [] op.type = "LINE_ABOVE" ->
            IF cursorPos.lineNumber > 0
            THEN find_closest_cursor_position(text, iter, cursorPos.lineNumber - 1,
                                              cursorPos.x)
            ELSE cursor
      [] op.type = "LINE_BELOW" ->
            IF cursorPos.lineNumber < LineCount(text) - 1
            THEN find_closest_cursor_position(text, iter, cursorPos.lineNumber + 1,
                                              cursorPos.x)
            ELSE cursor
      [] op.type = "MOUSE_POSITION" ->
            LET closest == get_closest_line_to_height(text, op.mouseY)
                lineIndex == IF closest = LineCount(text) THEN LineCount(text) - 1
                             ELSE closest
            IN  find_closest_cursor_position(text, iter, lineIndex, op.mouseX)
      [] OTHER -> cursor

\* create_text_rects of the text to lay out: the post-layout move, then
\* g_cursorPos from the layout, then the rects.  m_textRects is kept as the
\* text whose glyphs the rects draw.
create_text_rects(st, b, text, op) ==
    LET moved == IF op.type # "NONE"
                 THEN set_cursor_position_internal(st, b,
                          apply_cursor_move(text, st.iter, st.cursorPos, op,
                                            st.boxes[b].cursor),
                          op.selectionMode)
                 ELSE st
    IN  [moved EXCEPT !.cursorPos = calc_cursor_pixel_pos(text, moved.boxes[b].cursor),
                      !.boxes[b].textRects = text]

\* The content text of a source text with inline markup: the text without
\* its tags, a tag being the bytes from a "<" to the next ">".
RECURSIVE StripTags(_, _)
StripTags(text, inTag) ==
    IF text = <<>> THEN <<>>
    ELSE IF inTag THEN StripTags(Tail(text), Head(text) # ">")
    ELSE IF Head(text) = "<" THEN StripTags(Tail(text), TRUE)
    ELSE <<Head(text)>> \o StripTags(Tail(text), FALSE)

parse_inline_formatting(text) == StripTags(text, FALSE)

should_focused_use_rich_text(box) == box.richText /\ ~box.editable

\* The richText argument of recalc_text_internal: recalc_text passes
\* is_focused() ? should_focused_use_rich_text() : m_richText, and the
\* cursor moves, which run on the focused box, pass
\* should_focused_use_rich_text().
RichTextArgument(st, b) ==
    IF st.focused = b THEN should_focused_use_rich_text(st.boxes[b])
    ELSE st.boxes[b].richText

\* recalc_text_internal of a box whose font is valid: the rects are cleared
\* and g_cursorPos is reset, and with an empty content text nothing else is
\* done.
recalc_text_internal(st, b, op) ==
    LET reset == [st EXCEPT !.cursorPos = NoCursorPos, !.boxes[b].textRects = <<>>]
        text == st.boxes[b].text
        richText == RichTextArgument(st, b)
        contentText == IF richText THEN parse_inline_formatting(text) ELSE text
    IN  IF contentText = <<>> THEN reset
        ELSE create_text_rects(
                 IF reset.focused = b
                 THEN [reset EXCEPT !.iter =
                          [live |-> TRUE,
                           text |-> IF should_focused_use_rich_text(st.boxes[b])
                                    THEN contentText ELSE text]]
                 ELSE reset,
                 b, contentText, op)

recalc_text(st, b) == recalc_text_internal(st, b, NoOp)

set_text(st, b, text) == recalc_text([st EXCEPT !.boxes[b].text = text], b)

\* set_position, and with it set_font, set_size, set_text_x_alignment,
\* set_text_y_alignment and set_text_wrapped: a member outside this model is
\* assigned and recalc_text is called.
set_position(st, b) == recalc_text(st, b)

set_rich_text(st, b, richText) ==
    recalc_text([st EXCEPT !.boxes[b].richText = richText], b)

\* set_multi_line, set_editable and set_selectable assign their member and
\* return.
set_multi_line(st, b, multiLine) == [st EXCEPT !.boxes[b].multiLine = multiLine]

set_editable(st, b, editable) == [st EXCEPT !.boxes[b].editable = editable]

set_selectable(st, b, selectable) == [st EXCEPT !.boxes[b].selectable = selectable]

cursor_move_to_next_character(st, b, selectionMode) ==
    LET nextIndex == following(st.iter, st.boxes[b].cursor)
    IN  recalc_text_internal(
            IF nextIndex # DONE
            THEN set_cursor_position_internal(st, b, nextIndex, selectionMode)
            ELSE st,
            b, NoOp)

cursor_move_to_prev_character(st, b, selectionMode) ==
    LET nextIndex == preceding(st.iter, st.boxes[b].cursor)
    IN  recalc_text_internal(
            IF nextIndex # DONE
            THEN set_cursor_position_internal(st, b, nextIndex, selectionMode)
            ELSE st,
            b, NoOp)

\* The loop of cursor_move_to_next_word.
RECURSIVE NextWordLoop(_, _, _, _)
NextWordLoop(st, b, selectionMode, lastWhitespace) ==
    LET nextIndex == following(st.iter, st.boxes[b].cursor)
        moved == set_cursor_position_internal(st, b, nextIndex, selectionMode)
        c == U8Get(st.boxes[b].text, nextIndex)
        whitespace == u_isWhitespace(c)
    IN  IF nextIndex = DONE THEN st
        ELSE IF (~whitespace /\ lastWhitespace) \/ is_line_break(c) THEN moved
        ELSE NextWordLoop(moved, b, selectionMode, whitespace)

cursor_move_to_next_word(st, b, selectionMode) ==
    LET c == U8Get(st.boxes[b].text, st.boxes[b].cursor)
    IN  recalc_text_internal(NextWordLoop(st, b, selectionMode, u_isWhitespace(c)),
                             b, NoOp)

\* The loop of cursor_move_to_prev_word.
RECURSIVE PrevWordLoop(_, _, _, _)
PrevWordLoop(st, b, selectionMode, lastWhitespace) ==
    LET nextIndex == preceding(st.iter, st.boxes[b].cursor)
        moved == set_cursor_position_internal(st, b, nextIndex, selectionMode)
        c == U8Get(st.boxes[b].text, nextIndex)
        whitespace == u_isWhitespace(c)
    IN  IF nextIndex = DONE THEN st
        ELSE IF whitespace /\ ~lastWhitespace THEN st
        ELSE IF is_line_break(c) THEN moved
        ELSE PrevWordLoop(moved, b, selectionMode, whitespace)

cursor_move_to_prev_word(st, b, selectionMode) ==
    recalc_text_internal(PrevWordLoop(st, b, selectionMode, TRUE), b, NoOp)

cursor_move_to_next_line(st, b, selectionMode) ==
    recalc_text_internal(st, b, PostLayoutCursorMove("LINE_BELOW", selectionMode))

cursor_move_to_prev_line(st, b, selectionMode) ==
    recalc_text_internal(st, b, PostLayoutCursorMove("LINE_ABOVE", selectionMode))

cursor_move_to_line_start(st, b, selectionMode) ==
    recalc_text_internal(st, b, PostLayoutCursorMove("LINE_START", selectionMode))

cursor_move_to_line_end(st, b, selectionMode) ==
    recalc_text_internal(st, b, PostLayoutCursorMove("LINE_END", selectionMode))

cursor_move_to_text_start(st, b, selectionMode) ==
    recalc_text_internal(set_cursor_position_internal(st, b, 0, selectionMode), b, NoOp)

cursor_move_to_text_end(st, b, selectionMode) ==
    recalc_text_internal(
        set_cursor_position_internal(st, b, Len(st.boxes[b].text), selectionMode),
        b, NoOp)

cursor_move_to_mouse(st, b, mouseX, mouseY, selectionMode) ==
    recalc_text_internal(st, b, CursorToMouse(mouseX, mouseY, selectionMode))

\* insert_text: the cursor moves first; the text goes in at startIndex when
\* that is inside the text, and at the end otherwise.
insert_text_appends(st, b, text, startIndex) ==
    set_text([st EXCEPT !.boxes[b].cursor = @ + Len(text)], b, st.boxes[b].text \o text)

insert_text(st, b, text, startIndex) ==
    LET m_text == st.boxes[b].text
        moved == [st EXCEPT !.boxes[b].cursor = @ + Len(text)]
    IN  IF startIndex < Len(m_text)
        THEN set_text(moved, b,
                      SubstrTo(m_text, startIndex) \o text \o SubstrFrom(m_text, startIndex))
        ELSE set_text(moved, b, m_text \o text)

\* remove_text: substr(endIndex) throws std::out_of_range past the end of
\* the text; substr(0, startIndex) takes what there is.
remove_text(st, b, startIndex, endIndex) ==
    LET m_text == st.boxes[b].text
        before == SubstrTo(m_text, IF startIndex > Len(m_text) THEN Len(m_text)
                                   ELSE startIndex)
    IN  IF endIndex > Len(m_text) THEN [st EXCEPT !.crashed = TRUE]
        ELSE set_text(st, b, before \o SubstrFrom(m_text, endIndex))

remove_highlighted_text(st, b) ==
    LET selStart == st.boxes[b].selectionStart
        cursor == st.boxes[b].cursor
        start == IF selStart > cursor THEN cursor ELSE selStart
        end == IF selStart > cursor THEN selStart ELSE cursor
    IN  IF selStart = cursor \/ selStart = INVALID_VALUE THEN st
        ELSE remove_text([st EXCEPT !.boxes[b].cursor = start,
                                    !.boxes[b].selectionStart = INVALID_VALUE],
                         b, start, end)


\* release_focus without the reset of the focused pointer and of the
\* selection.
release_focus_keeps_pointer(st, b) ==
    IF st.focused # b THEN st
    ELSE recalc_text([st EXCEPT !.iter = NoBreakIter,
                                !.isMouseDown = FALSE,
                                !.clickCount = 0,
                                !.lastClickPos = INVALID_VALUE],
                     b)

release_focus(st, b) ==
    IF st.focused # b THEN st
    ELSE recalc_text([st EXCEPT !.iter = NoBreakIter,
                                !.focused = NoBox,
                                !.isMouseDown = FALSE,
                                !.clickCount = 0,
                                !.lastClickPos = INVALID_VALUE,
                                !.boxes[b].selectionStart = INVALID_VALUE],
                     b)

capture_focus(st, b) ==
    IF st.focused = b THEN st
    ELSE LET released == IF st.focused # NoBox THEN release_focus(st, st.focused) ELSE st
         IN  recalc_text_internal([released EXCEPT !.focused = b,
                                                   !.iter = [live |-> TRUE, text |-> <<>>]],
                                  b, NoOp)

handle_key_backspace(st, b, ctrl) ==
    IF st.boxes[b].selectionStart # INVALID_VALUE THEN remove_highlighted_text(st, b)
    ELSE IF st.boxes[b].cursor > 0
    THEN LET endPos == st.boxes[b].cursor
             moved == IF ctrl THEN cursor_move_to_prev_word(st, b, FALSE)
                      ELSE cursor_move_to_prev_character(st, b, FALSE)
         IN  remove_text(moved, b, moved.boxes[b].cursor, endPos)
    ELSE st

handle_key_delete(st, b, ctrl) ==
    IF st.boxes[b].selectionStart # INVALID_VALUE THEN remove_highlighted_text(st, b)
    ELSE IF st.boxes[b].cursor < Len(st.boxes[b].text)
    THEN LET startPos == st.boxes[b].cursor
             moved == IF ctrl THEN cursor_move_to_next_word(st, b, FALSE)
                      ELSE cursor_move_to_next_character(st, b, FALSE)
             endPos == moved.boxes[b].cursor
         IN  remove_text([moved EXCEPT !.boxes[b].cursor = startPos], b, startPos, endPos)
    ELSE st

handle_key_enter(st, b) ==
    IF st.boxes[b].multiLine
    THEN LET removed == remove_highlighted_text(st, b)
         IN  IF removed.crashed THEN removed
             ELSE insert_text(removed, b, <<LF>>, removed.boxes[b].cursor)
    ELSE release_focus(st, b)

\* The keys of handle_key_press; "OTHER" is any key of the default case.
\* Ctrl+X, Ctrl+C and Ctrl+V go through the system clipboard and are not
\* among the keys pressed here.
Keys == {"UP", "DOWN", "LEFT", "RIGHT", "HOME", "END", "BACKSPACE", "DELETE",
         "ENTER", "X", "C", "V", "A", "OTHER"}

\* handle_key_press: [st, ret].
\* The string the window system's clipboard holds.
ClipboardString == <<"a">>

\* clipboard_copy_text: substr(startPos, n) throws std::out_of_range when
\* startPos is past the end of the text; the clipboard is outside the model.
clipboard_copy_text(st, b) ==
    LET selStart == st.boxes[b].selectionStart
        cursor == st.boxes[b].cursor
        startPos == IF selStart > cursor THEN cursor ELSE selStart
    IN  IF selStart = INVALID_VALUE \/ selStart = cursor THEN st
        ELSE IF startPos > Len(st.boxes[b].text) THEN [st EXCEPT !.crashed = TRUE]
        ELSE st

clipboard_cut_text(st, b) ==
    IF ~st.boxes[b].editable THEN st
    ELSE LET copied == clipboard_copy_text(st, b)
         IN  IF copied.crashed THEN copied ELSE remove_highlighted_text(copied, b)

clipboard_paste_text(st, b) ==
    IF ~st.boxes[b].editable THEN st
    ELSE LET removed == remove_highlighted_text(st, b)
         IN  IF removed.crashed THEN removed
             ELSE insert_text(removed, b, ClipboardString, removed.boxes[b].cursor)

handle_key_press(st, b, key, action, shift, ctrl) ==
    IF action = "RELEASE" THEN [st |-> st, ret |-> FALSE]
    ELSE IF st.focused # b THEN [st |-> st, ret |-> FALSE]
    ELSE [ret |-> TRUE,
          st |-> CASE key = "UP" -> cursor_move_to_prev_line(st, b, shift)
                   [] key = "DOWN" -> cursor_move_to_next_line(st, b, shift)
                   [] key = "LEFT" ->
                        IF ctrl THEN cursor_move_to_prev_word(st, b, shift)
                        ELSE cursor_move_to_prev_character(st, b, shift)
                   [] key = "RIGHT" ->
                        IF ctrl THEN cursor_move_to_next_word(st, b, shift)
                        ELSE cursor_move_to_next_character(st, b, shift)
                   [] key = "HOME" ->
                        IF ctrl THEN cursor_move_to_text_start(st, b, shift)
                        ELSE cursor_move_to_line_start(st, b, shift)
                   [] key = "END" ->
                        IF ctrl THEN cursor_move_to_text_end(st, b, shift)
                        ELSE cursor_move_to_line_end(st, b, shift)
                   [] key = "BACKSPACE" -> handle_key_backspace(st, b, ctrl)
                   [] key = "DELETE" -> handle_key_delete(st, b, ctrl)
                   [] key = "ENTER" -> handle_key_enter(st, b)
                   [] key = "X" -> IF ctrl THEN clipboard_cut_text(st, b) ELSE st
                   [] key = "C" -> IF ctrl THEN clipboard_copy_text(st, b) ELSE st
                   [] key = "V" -> IF ctrl THEN clipboard_paste_text(st, b) ELSE st
                   [] OTHER -> st]

\* The number of click counts the switch of handle_mouse_button tells
\* apart; g_clickCount is kept modulo it (2^32 is a multiple of it).
ClickCycle == 4

\* The switch on g_clickCount % 4.
ClickSelect(st, b) ==
    CASE st.clickCount % ClickCycle = 1 ->
            cursor_move_to_next_word(cursor_move_to_prev_word(st, b, FALSE), b, TRUE)
      [] st.clickCount % ClickCycle = 2 ->
            cursor_move_to_line_end(cursor_move_to_line_start(st, b, FALSE), b, TRUE)
      [] st.clickCount % ClickCycle = 3 ->
            cursor_move_to_text_end(cursor_move_to_text_start(st, b, FALSE), b, TRUE)
      [] OTHER -> st

\* handle_mouse_button: [st, ret].  mouseInside is is_mouse_inside(mouseX,
\* mouseY); mouseX and mouseY are taken relative to the box; quick tells
\* whether time - g_lastClickTime <= DOUBLE_CLICK_TIME.
handle_mouse_button(st, b, button, action, shift, mouseInside, mouseX, mouseY, quick) ==
    IF button # "BUTTON_1" THEN [st |-> st, ret |-> FALSE]
    ELSE IF action = "PRESS"
    THEN LET moved == cursor_move_to_mouse(st, b, mouseX, mouseY, shift)
             counted == [moved EXCEPT
                           !.clickCount =
                               IF moved.boxes[b].cursor = moved.lastClickPos /\ quick
                               THEN (@ + 1) % ClickCycle ELSE 0,
                           !.lastClickPos = moved.boxes[b].cursor]
             after == IF st.focused = b
                      THEN IF mouseInside THEN ClickSelect(counted, b)
                           ELSE release_focus(st, b)
                      ELSE cursor_move_to_mouse(capture_focus(st, b), b, mouseX, mouseY,
                                                shift)
         IN  [st |-> [after EXCEPT !.isMouseDown = TRUE], ret |-> mouseInside]
    ELSE IF action = "RELEASE"
    THEN [st |-> IF st.focused = b THEN [st EXCEPT !.isMouseDown = FALSE] ELSE st,
          ret |-> FALSE]
    ELSE [st |-> st, ret |-> FALSE]

handle_mouse_move(st, b, mouseX, mouseY) ==
    [st |-> IF st.focused = b /\ st.isMouseDown
            THEN cursor_move_to_mouse(st, b, mouseX, mouseY, TRUE)
            ELSE st,
     ret |-> FALSE]

handle_text_input(st, b, codepoint) ==
    IF st.focused = b /\ st.boxes[b].editable
    THEN LET removed == IF st.boxes[b].selectionStart # INVALID_VALUE
                        THEN remove_highlighted_text(st, b) ELSE st
         IN  [st |-> IF removed.crashed THEN removed
                     ELSE insert_text(removed, b, U8Append(codepoint),
                                      removed.boxes[b].cursor),
              ret |-> TRUE]
    ELSE [st |-> st, ret |-> FALSE]

\* ~TextBox.
DestroyTextBox(st, b) == [release_focus(st, b) EXCEPT !.boxes[b].alive = FALSE]


(***************************************************************************)
(* The events of the text boxes.                                           *)
(***************************************************************************)
\* The codepoints typed into a box.
InputCodepoints == {"a", " ", "e-acute"}

\* The texts the owner of a box gives it with set_text.
SetTexts == {<<>>, <<LF, "a">>}

\* The text of the double-click scenario, "foo bar baz", and the columns of
\* the middle of "bar" that the mouse points at in it.
FooBarBaz == <<"f", "o", "o", " ", "b", "a", "r", " ", "b", "a", "z">>

\* The columns and rows the mouse points at in the text of a box: those of
\* the text and one past the last line; in the scenario text, the middle of
\* "bar".
MouseColumns(text) == IF text = FooBarBaz THEN 5..6 ELSE 0..Len(text)

MouseRows(text) == 0..LineCount(text)

\* The key events: every key pressed with and without Shift and Ctrl, and a
\* key released.
KeyInputs ==
    {[key |-> key, action |-> "PRESS", shift |-> shift, ctrl |-> ctrl] :
        key \in Keys, shift \in BOOLEAN, ctrl \in BOOLEAN}
    \cup {[key |-> "OTHER", action |-> "RELEASE", shift |-> FALSE, ctrl |-> FALSE]}

MouseInput(button, action, shift, mouseInside, mouseX, mouseY, quick) ==
    [button |-> button, action |-> action, shift |-> shift, mouseInside |-> mouseInside,
     mouseX |-> mouseX, mouseY |-> mouseY, quick |-> quick]

\* The mouse button events on a box with this text: the primary button
\* pressed anywhere, with and without Shift, soon or long after the last
\* click; the primary button released; another button pressed.
MouseInputs(text) ==
    {MouseInput("BUTTON_1", "PRESS", shift, mouseInside, mouseX, mouseY, quick) :
        shift \in BOOLEAN, mouseInside \in BOOLEAN, mouseX \in MouseColumns(text),
        mouseY \in MouseRows(text), quick \in BOOLEAN}
    \cup {MouseInput("BUTTON_1", "RELEASE", FALSE, TRUE, 0, 0, FALSE),
          MouseInput("BUTTON_2", "PRESS", FALSE, TRUE, 0, 0, FALSE)}

LiveBoxes == {b \in DOMAIN boxes : boxes[b].alive}

\* The texts stay within the bound of the model.
TextsFit(st) == \A b \in DOMAIN st.boxes :
                    Len(st.boxes[b].text) <= MaxBoxLen \/ st.boxes[b].text = FooBarBaz
                    \/ Len(st.boxes[b].text) <= Len(boxes[b].text)

\* The variables after a handler has left the state st.
BoxReturnsWith(st, held) ==
    /\ TextsFit(st)
    /\ \A b \in DOMAIN st.boxes :
          st.boxes[b].cursor <= MaxCursor \/ st.boxes[b].cursor <= Len(st.boxes[b].text)
    /\ boxes' = st.boxes
    /\ g_focusedTextBox' = st.focused
    /\ g_isMouseDown' = st.isMouseDown
    /\ g_clickCount' = st.clickCount
    /\ g_lastClickPos' = st.lastClickPos
    /\ g_cursorPos' = st.cursorPos
    /\ g_charBreakIter' = st.iter
    /\ crashed' = st.crashed
    /\ primaryHeld' = held
    /\ UNCHANGED emitted
    /\ UNCHANGED notBox

BoxReturns(st) == BoxReturnsWith(st, primaryHeld)

KeyPress ==
    /\ ~crashed
    /\ \E b \in LiveBoxes, k \in KeyInputs :
         LET r == handle_key_press(BoxState, b, k.key, k.action, k.shift, k.ctrl)
         IN  BoxReturns(r.st)

TextInput ==
    /\ ~crashed
    /\ \E b \in LiveBoxes, codepoint \in InputCodepoints :
         LET r == handle_text_input(BoxState, b, codepoint)
         IN  BoxReturns(r.st)

MouseButton ==
    /\ ~crashed
    /\ \E b \in LiveBoxes :
         \E m \in MouseInputs(boxes[b].text) :
            LET r == handle_mouse_button(BoxState, b, m.button, m.action, m.shift,
                                         m.mouseInside, m.mouseX, m.mouseY, m.quick)
            IN  BoxReturnsWith(r.st, IF m.button = "BUTTON_1" THEN m.action = "PRESS"
                                     ELSE primaryHeld)

MouseMove ==
    /\ ~crashed
    /\ \E b \in LiveBoxes :
         \E mouseX \in MouseColumns(boxes[b].text), mouseY \in MouseRows(boxes[b].text) :
            LET r == handle_mouse_move(BoxState, b, mouseX, mouseY)
            IN  BoxReturns(r.st)

CaptureFocus ==
    /\ ~crashed
    /\ \E b \in LiveBoxes : BoxReturns(capture_focus(BoxState, b))

ReleaseFocus ==
    /\ ~crashed
    /\ \E b \in LiveBoxes : BoxReturns(release_focus(BoxState, b))

SetText ==
    /\ ~crashed
    /\ \E b \in LiveBoxes, text \in SetTexts :
         /\ Len(text) <= MaxBoxLen
         /\ BoxReturns(set_text(BoxState, b, text))

Destroy ==
    /\ ~crashed
    /\ \E b \in LiveBoxes : BoxReturns(DestroyTextBox(BoxState, b))

\* One box, its flags set by its owner, driven by the keyboard.
InitBox ==
    /\ \E editable \in BOOLEAN, multiLine \in BOOLEAN :
          boxes = <<NewTextBox(editable, multiLine)>>
    /\ InitBoxGlobals
    /\ InitRunsIdle
    /\ InitBidiIdle
    /\ InitFontIdle

NextBox == KeyPress \/ TextInput \/ CaptureFocus \/ ReleaseFocus \/ SetText

SpecBox == InitBox /\ [][NextBox]_vars


\* A box that its owner has constructed and given a text.
TextBoxWithText(text, editable, multiLine) ==
    [NewTextBox(editable, multiLine) EXCEPT !.text = text, !.textRects = text]

\* The texts of the boxes the mouse is used on: the short texts, and the
\* text of the double-click scenario.
MouseTexts ==
    {FooBarBaz} \cup UNION {[1..n -> {"a", " ", LF}] : n \in 1..MaxBoxLen}

\* One box with a text, driven by the mouse.
InitMouse ==
    /\ \E text \in MouseTexts : boxes = <<TextBoxWithText(text, FALSE, FALSE)>>
    /\ InitBoxGlobals
    /\ InitRunsIdle
    /\ InitBidiIdle
    /\ InitFontIdle

NextMouse == MouseButton \/ MouseMove

SpecMouse == InitMouse /\ [][NextMouse]_vars

\* Two boxes with a text of one letter; the mouse, the focus calls and the
\* destructor.
InitFocus ==
    /\ boxes = <<TextBoxWithText(<<"a">>, FALSE, FALSE),
                 TextBoxWithText(<<"a">>, FALSE, FALSE)>>
    /\ InitBoxGlobals
    /\ InitRunsIdle
    /\ InitBidiIdle
    /\ InitFontIdle

NextFocus == MouseButton \/ MouseMove \/ CaptureFocus \/ ReleaseFocus \/ Destroy

SpecFocus == InitFocus /\ [][NextFocus]_vars


(***************************************************************************)
(* The claims about the text box.  A claim about a handler is stated on    *)
(* the state the handler is called in: the handler applied to that state   *)
(* gives the state it leaves.                                              *)
(***************************************************************************)
\* The state handle_key_press leaves when a key is pressed on box b.
AfterKey(b, key, shift, ctrl) ==
    handle_key_press(BoxState, b, key, "PRESS", shift, ctrl).st

\* Box b has the focus, a text with a layout, and its cursor in the text.
FocusedWithCursorInText(b) ==
    /\ g_focusedTextBox = b
    /\ ~crashed
    /\ boxes[b].text # <<>>
    /\ boxes[b].cursor <= Len(boxes[b].text)

\* The line of the layout that holds the cursor of box b.
CurrentLine(b) == LineOfCursor(boxes[b].text, boxes[b].cursor)

(***************************************************************************)
(* C3: Home, End, Up and Down on the focused box work from the line that   *)
(* holds the cursor when the key is handled, whichever line that is: Home  *)
(* and End put the cursor at the start and the end of that line, Up and    *)
(* Down put it on the line directly above and below, and Up on line 0 and  *)
(* Down on the last line leave it where it is.                             *)
(***************************************************************************)
LineMovesUseCursorLine ==
    \A b \in LiveBoxes, shift \in BOOLEAN :
        FocusedWithCursorInText(b) =>
          /\ AfterKey(b, "HOME", shift, FALSE).boxes[b].cursor =
                get_line_start_position(boxes[b].text, CurrentLine(b))
          /\ AfterKey(b, "END", shift, FALSE).boxes[b].cursor =
                get_line_end_position(boxes[b].text, CurrentLine(b))
          /\ IF CurrentLine(b) = 0
             THEN AfterKey(b, "UP", shift, FALSE).boxes[b].cursor = boxes[b].cursor
             ELSE LineOfCursor(boxes[b].text,
                               AfterKey(b, "UP", shift, FALSE).boxes[b].cursor)
                  = CurrentLine(b) - 1
          /\ IF CurrentLine(b) = LineCount(boxes[b].text) - 1
             THEN AfterKey(b, "DOWN", shift, FALSE).boxes[b].cursor = boxes[b].cursor
             ELSE LineOfCursor(boxes[b].text,
                               AfterKey(b, "DOWN", shift, FALSE).boxes[b].cursor)
                  = CurrentLine(b) + 1

\* The selection of box b, as the code orders it: [SelectionMin, SelectionMax).
HasSelection(b) == boxes[b].selectionStart # INVALID_VALUE

SelectionMin(b) ==
    IF boxes[b].selectionStart > boxes[b].cursor THEN boxes[b].cursor
    ELSE boxes[b].selectionStart

SelectionMax(b) ==
    IF boxes[b].selectionStart > boxes[b].cursor THEN boxes[b].selectionStart
    ELSE boxes[b].cursor

\* The text without the bytes [from, to).
WithoutRange(text, from, to) == SubSeq(text, 1, from) \o SubSeq(text, to + 1, Len(text))

\* The text with the bytes ins put in at offset at.
WithInsertion(text, at, ins) ==
    SubSeq(text, 1, at) \o ins \o SubSeq(text, at + 1, Len(text))

(***************************************************************************)
(* C4: handle_text_input on a focused, editable box deletes the selection  *)
(* if there is one, inserts the UTF-8 form of the codepoint at the cursor  *)
(* position that results, and leaves the cursor right after the inserted   *)
(* bytes; on a box that is not focused or not editable it changes nothing  *)
(* and returns false.                                                      *)
(***************************************************************************)
TextInputInsertsAtCursor ==
    \A b \in LiveBoxes, codepoint \in InputCodepoints :
        ~crashed =>
          LET r == handle_text_input(BoxState, b, codepoint)
              from == IF HasSelection(b) THEN SelectionMin(b) ELSE boxes[b].cursor
              to == IF HasSelection(b) THEN SelectionMax(b) ELSE boxes[b].cursor
          IN  IF g_focusedTextBox = b /\ boxes[b].editable
              THEN /\ ~r.st.crashed
                   /\ to <= Len(boxes[b].text)
                   /\ r.st.boxes[b].text =
                         WithInsertion(WithoutRange(boxes[b].text, from, to), from,
                                       U8Append(codepoint))
                   /\ r.st.boxes[b].cursor = from + Len(U8Append(codepoint))
                   /\ r.ret
              ELSE /\ r.st.boxes = boxes
                   /\ ~r.ret

(***************************************************************************)
(* C9: Backspace and Delete on the focused box with a valid selection      *)
(* anchor a and cursor c, both within the text, remove the bytes           *)
(* [min(a,c), max(a,c)), leave the cursor at min(a,c) and clear the        *)
(* selection.                                                              *)
(***************************************************************************)
DeleteKeysRemoveSelection ==
    \A b \in LiveBoxes, key \in {"BACKSPACE", "DELETE"}, ctrl \in BOOLEAN :
        (/\ g_focusedTextBox = b
         /\ ~crashed
         /\ HasSelection(b)
         /\ boxes[b].selectionStart <= Len(boxes[b].text)
         /\ boxes[b].cursor <= Len(boxes[b].text))
        => /\ AfterKey(b, key, FALSE, ctrl).boxes[b].text =
                 WithoutRange(boxes[b].text, SelectionMin(b), SelectionMax(b))
           /\ AfterKey(b, key, FALSE, ctrl).boxes[b].cursor = SelectionMin(b)
           /\ AfterKey(b, key, FALSE, ctrl).boxes[b].selectionStart = INVALID_VALUE

\* The ends of the selection of box b in the state st.
SelectedFrom(st, b) == SetMin({st.boxes[b].selectionStart, st.boxes[b].cursor})

SelectedTo(st, b) == SetMax({st.boxes[b].selectionStart, st.boxes[b].cursor})

(***************************************************************************)
(* C8: in the text "foo bar baz", after a primary click in the middle of   *)
(* "bar" on the focused box, a second click at the same cursor position    *)
(* within the double-click time leaves a selection of exactly the bytes    *)
(* [4, 7): the word, without the whitespace that follows it.               *)
(***************************************************************************)
DoubleClickSelectsWord ==
    \A b \in LiveBoxes, mouseX \in MouseColumns(FooBarBaz) :
        (/\ g_focusedTextBox = b
         /\ ~crashed
         /\ boxes[b].text = FooBarBaz
         /\ boxes[b].cursor = mouseX
         /\ g_lastClickPos = mouseX
         /\ g_clickCount = 0)
        => LET r == handle_mouse_button(BoxState, b, "BUTTON_1", "PRESS", FALSE, TRUE,
                                        mouseX, 0, TRUE)
           IN  /\ r.st.boxes[b].selectionStart # INVALID_VALUE
               /\ SelectedFrom(r.st, b) = 4
               /\ SelectedTo(r.st, b) = 7

(***************************************************************************)
(* C10: after any sequence of mouse presses, capture_focus and             *)
(* release_focus calls and destructions, the focused pointer is null or a  *)
(* live text box, so at most one box is focused; capture_focus on a box B  *)
(* while another box A is focused gives B the focus and leaves A without   *)
(* selection, the click count 0 and the mouse-down flag cleared; and       *)
(* destroying the focused box leaves the pointer null.                     *)
(***************************************************************************)
FocusIsNullOrLive ==
    /\ g_focusedTextBox = NoBox \/ g_focusedTextBox \in LiveBoxes
    /\ \A a \in LiveBoxes, b \in LiveBoxes :
          (a # b /\ g_focusedTextBox = a /\ ~crashed) =>
             LET r == capture_focus(BoxState, b)
             IN  /\ r.focused = b
                 /\ r.boxes[a].selectionStart = INVALID_VALUE
                 /\ r.clickCount = 0
                 /\ ~r.isMouseDown
    /\ \A b \in LiveBoxes :
          (g_focusedTextBox = b /\ ~crashed) =>
             LET r == DestroyTextBox(BoxState, b)
             IN  /\ r.focused = NoBox
                 /\ ~r.boxes[b].alive

\* Box 1 has the focus, a selection, a click counted and the mouse button
\* down, next to a live box 2 that can take the focus from it.
FocusedBoxHasStateToClear ==
    /\ g_focusedTextBox = 1
    /\ boxes[1].selectionStart # INVALID_VALUE
    /\ g_clickCount > 0
    /\ g_isMouseDown
    /\ boxes[2].alive

\* A primary press inside box b at (mouseX, mouseY), and where it puts the
\* cursor.
PressInside(b, shift, mouseX, mouseY, quick) ==
    handle_mouse_button(BoxState, b, "BUTTON_1", "PRESS", shift, TRUE, mouseX, mouseY,
                        quick).st

PressPosition(b, shift, mouseX, mouseY) ==
    cursor_move_to_mouse(BoxState, b, mouseX, mouseY, shift).boxes[b].cursor

\* The click count the claim gives to a press that lands on pos.
NamedClickCount(pos, quick) ==
    IF pos = g_lastClickPos /\ quick THEN (g_clickCount + 1) % ClickCycle ELSE 0

\* The word around offset pos of a text: the longest stretch of bytes that
\* are not whitespace and that holds the byte at pos.
WordFrom(text, pos) ==
    SetMin({f \in 0..pos : \A i \in f..pos : ~u_isWhitespace(text[i + 1])})

WordTo(text, pos) ==
    SetMax({t \in (pos + 1)..Len(text) : \A i \in pos..(t - 1) : ~u_isWhitespace(text[i + 1])})

\* What the claim says of the press for each click count.
ClickCountIsNamed(b, shift, mouseX, mouseY, quick) ==
    PressInside(b, shift, mouseX, mouseY, quick).clickCount
        = NamedClickCount(PressPosition(b, shift, mouseX, mouseY), quick)

SingleClickPlacesCursor(b, shift, mouseX, mouseY, quick) ==
    LET r == PressInside(b, shift, mouseX, mouseY, quick)
    IN  r.clickCount = 0 =>
            r.boxes[b] = cursor_move_to_mouse(BoxState, b, mouseX, mouseY, shift).boxes[b]

DoubleClickSelectsTheWord(b, shift, mouseX, mouseY, quick) ==
    LET r == PressInside(b, shift, mouseX, mouseY, quick)
        pos == PressPosition(b, shift, mouseX, mouseY)
        text == boxes[b].text
    IN  (r.clickCount = 1 /\ pos < Len(text) /\ ~u_isWhitespace(text[pos + 1])) =>
            /\ r.boxes[b].selectionStart = WordFrom(text, pos)
            /\ r.boxes[b].cursor = WordTo(text, pos)

TripleClickSelectsTheLine(b, shift, mouseX, mouseY, quick) ==
    LET r == PressInside(b, shift, mouseX, mouseY, quick)
        pos == PressPosition(b, shift, mouseX, mouseY)
        text == boxes[b].text
    IN  (r.clickCount = 2 /\ pos <= Len(text)) =>
            /\ r.boxes[b].selectionStart =
                  get_line_start_position(text, LineOfCursor(text, pos))
            /\ r.boxes[b].cursor =
                  get_line_end_position(text, LineOfCursor(text, pos))

FourthClickSelectsAll(b, shift, mouseX, mouseY, quick) ==
    LET r == PressInside(b, shift, mouseX, mouseY, quick)
    IN  r.clickCount = 3 =>
            /\ r.boxes[b].selectionStart = 0
            /\ r.boxes[b].cursor = Len(boxes[b].text)

(***************************************************************************)
(* C25: a primary press inside the focused box counts one click more when  *)
(* it lands on the cursor position of the previous click within the        *)
(* double-click time, and counts from 0 again otherwise; the count modulo  *)
(* 4 chooses what the press does: 1 selects the word, 2 the line, 3 the    *)
(* whole text, and 0 only places the cursor, as a single click does.       *)
(***************************************************************************)
ClickCountChoosesSelection ==
    \A b \in LiveBoxes, shift \in BOOLEAN, quick \in BOOLEAN :
      \A mouseX \in MouseColumns(boxes[b].text), mouseY \in MouseRows(boxes[b].text) :
        (g_focusedTextBox = b /\ ~crashed /\ boxes[b].text # <<>>) =>
            /\ ~PressInside(b, shift, mouseX, mouseY, quick).crashed
            /\ ClickCountIsNamed(b, shift, mouseX, mouseY, quick)
            /\ SingleClickPlacesCursor(b, shift, mouseX, mouseY, quick)
            /\ DoubleClickSelectsTheWord(b, shift, mouseX, mouseY, quick)
            /\ TripleClickSelectsTheLine(b, shift, mouseX, mouseY, quick)
            /\ FourthClickSelectsAll(b, shift, mouseX, mouseY, quick)

\* One box with a text, which its owner replaces and the mouse is pressed on.
InitPress ==
    /\ boxes = <<TextBoxWithText(<<"a">>, FALSE, FALSE)>>
    /\ InitBoxGlobals
    /\ InitRunsIdle
    /\ InitBidiIdle
    /\ InitFontIdle

NextPress == MouseButton \/ SetText

SpecPress == InitPress /\ [][NextPress]_vars

\* The cursor position at the mouse: on the line at the height of the
\* mouse, the last line when the mouse is below it, the codepoint boundary
\* at the column of the mouse, the end of the line when the mouse is right
\* of it.
MousePosition(text, mouseX, mouseY) ==
    LET lineIndex == SetMin({mouseY, LineCount(text) - 1})
        lineEnd == get_line_end_position(text, lineIndex)
        column == SetMin({mouseX, BoundaryX(text, lineIndex, lineEnd)})
    IN  CHOOSE p \in Boundaries(text) :
            /\ get_line_start_position(text, lineIndex) <= p
            /\ p <= lineEnd
            /\ BoundaryX(text, lineIndex, p) = column

(***************************************************************************)
(* C26: a primary press delivered to the focused box with the mouse        *)
(* outside it releases the focus and clears the box's selection; a primary *)
(* press delivered to a box that is not focused gives it the focus and     *)
(* puts its cursor at the mouse position, with the mouse inside or outside *)
(* the box.                                                                *)
(***************************************************************************)
PressOutsideReleasesPressElsewhereCaptures ==
    \A b \in LiveBoxes, shift \in BOOLEAN, mouseInside \in BOOLEAN, quick \in BOOLEAN :
      \A mouseX \in MouseColumns(boxes[b].text), mouseY \in MouseRows(boxes[b].text) :
        ~crashed =>
          LET r == handle_mouse_button(BoxState, b, "BUTTON_1", "PRESS", shift,
                                       mouseInside, mouseX, mouseY, quick).st
          IN  /\ (g_focusedTextBox = b /\ ~mouseInside) =>
                    /\ r.focused = NoBox
                    /\ r.boxes[b].selectionStart = INVALID_VALUE
              /\ g_focusedTextBox # b =>
                    /\ r.focused = b
                    /\ r.boxes[b].cursor = MousePosition(boxes[b].text, mouseX, mouseY)

(***************************************************************************)
(* C27: a press of the key A with Control on the focused box selects the   *)
(* whole text: afterwards the selection anchor is 0 and the cursor is at   *)
(* the length of the text.                                                 *)
(***************************************************************************)
ControlASelectsAll ==
    \A b \in LiveBoxes, shift \in BOOLEAN :
        (g_focusedTextBox = b /\ ~crashed) =>
            /\ AfterKey(b, "A", shift, TRUE).boxes[b].selectionStart = 0
            /\ AfterKey(b, "A", shift, TRUE).boxes[b].cursor = Len(boxes[b].text)

\* The text of the two-line scenario: the lines "aaaa bbbb" and "cccc".  The
\* layout of this model breaks lines at line feeds only, so the break after
\* "bbbb" is a line feed; the cursor moves read only the lines of the layout.
ColumnText ==
    <<"a", "a", "a", "a", " ", "b", "b", "b", "b", LF, "c", "c", "c", "c">>

\* The keys that move the cursor.
CursorKeys == {"UP", "DOWN", "LEFT", "RIGHT", "HOME", "END"}

\* handle_key_press with a key that moves the cursor.
CursorKeyPress ==
    /\ ~crashed
    /\ \E b \in LiveBoxes, key \in CursorKeys, shift \in BOOLEAN, ctrl \in BOOLEAN :
         BoxReturns(handle_key_press(BoxState, b, key, "PRESS", shift, ctrl).st)

\* One box with the two-line text, driven by the cursor keys.
InitColumn ==
    /\ boxes = <<TextBoxWithText(ColumnText, FALSE, TRUE)>>
    /\ InitBoxGlobals
    /\ InitRunsIdle
    /\ InitBidiIdle
    /\ InitFontIdle

NextColumn == CaptureFocus \/ CursorKeyPress

SpecColumn == InitColumn /\ [][NextColumn]_vars

(***************************************************************************)
(* C28: Up and Down aim at the x that calc_cursor_pixel_pos reports for    *)
(* the cursor before the move, so the cursor lands on the neighbouring     *)
(* line at its own column, or at the end of that line when it is shorter;  *)
(* in the two lines "aaaa bbbb" and "cccc", Down from the end of the first *)
(* line lands at the end of "cccc".                                        *)
(***************************************************************************)
LineMovesKeepColumn ==
    \A b \in LiveBoxes, shift \in BOOLEAN :
        FocusedWithCursorInText(b) =>
          LET text == boxes[b].text
              x == calc_cursor_pixel_pos(text, boxes[b].cursor).x
          IN  /\ CurrentLine(b) < LineCount(text) - 1 =>
                    AfterKey(b, "DOWN", shift, FALSE).boxes[b].cursor
                        = MousePosition(text, x, CurrentLine(b) + 1)
              /\ CurrentLine(b) > 0 =>
                    AfterKey(b, "UP", shift, FALSE).boxes[b].cursor
                        = MousePosition(text, x, CurrentLine(b) - 1)
              /\ (text = ColumnText /\ boxes[b].cursor = 9) =>
                    AfterKey(b, "DOWN", shift, FALSE).boxes[b].cursor = 14

\* ---------------------------------------------------------------------------
\* The setters of a text box with inline markup.

MarkupText == <<"<", "b", ">", "a">>

SetPosition ==
    /\ ~crashed
    /\ \E b \in LiveBoxes : BoxReturns(set_position(BoxState, b))

SetRichText ==
    /\ ~crashed
    /\ \E b \in LiveBoxes, richText \in BOOLEAN :
         BoxReturns(set_rich_text(BoxState, b, richText))

SetMultiLine ==
    /\ ~crashed
    /\ \E b \in LiveBoxes, multiLine \in BOOLEAN :
         BoxReturns(set_multi_line(BoxState, b, multiLine))

SetEditable ==
    /\ ~crashed
    /\ \E b \in LiveBoxes, editable \in BOOLEAN :
         BoxReturns(set_editable(BoxState, b, editable))

SetSelectable ==
    /\ ~crashed
    /\ \E b \in LiveBoxes, selectable \in BOOLEAN :
         BoxReturns(set_selectable(BoxState, b, selectable))

InitMutators ==
    /\ \E richText \in BOOLEAN, editable \in BOOLEAN :
         boxes = <<[TextBoxWithText(MarkupText, editable, TRUE) EXCEPT
                       !.richText = richText,
                       !.textRects = IF richText THEN parse_inline_formatting(MarkupText)
                                     ELSE MarkupText]>>
    /\ InitBoxGlobals
    /\ InitRunsIdle
    /\ InitBidiIdle
    /\ InitFontIdle

NextMutators ==
    \/ CaptureFocus
    \/ ReleaseFocus
    \/ SetText
    \/ SetPosition
    \/ SetRichText
    \/ SetMultiLine
    \/ SetEditable
    \/ SetSelectable

SpecMutators == InitMutators /\ [][NextMutators]_vars

\* The layout a mutator leaves is the layout of a fresh recalc_text: the same
\* rects, and on the focused box the same break iterator text.
LayoutIsFresh(st, b) ==
    LET fresh == recalc_text(st, b)
    IN  /\ st.boxes[b].textRects = fresh.boxes[b].textRects
        /\ st.focused = b => st.iter = fresh.iter

\* C29: after each of set_text, set_position (and the setters of the same
\* shape), set_rich_text, set_editable, set_selectable and set_multi_line, the
\* cached rects and the text the break iterator covers are those a fresh
\* recompute of the layout produces.
MutatorsRecomputeLayout ==
    ~crashed =>
        \A b \in LiveBoxes :
            /\ \A text \in SetTexts : LayoutIsFresh(set_text(BoxState, b, text), b)
            /\ LayoutIsFresh(set_position(BoxState, b), b)
            /\ \A flag \in BOOLEAN :
                  /\ LayoutIsFresh(set_rich_text(BoxState, b, flag), b)
                  /\ LayoutIsFresh(set_editable(BoxState, b, flag), b)
                  /\ LayoutIsFresh(set_selectable(BoxState, b, flag), b)
                  /\ LayoutIsFresh(set_multi_line(BoxState, b, flag), b)

\* ---------------------------------------------------------------------------
\* Word navigation on the focused box.

NextWordFrom(st, b) == cursor_move_to_next_word(st, b, FALSE).boxes[b].cursor

OnGraphemeBoundary(b) ==
    /\ g_focusedTextBox = b
    /\ boxes[b].cursor \in Boundaries(boxes[b].text)

\* C30: from a cursor on a grapheme boundary of the text, next_word after
\* prev_word ends at or after the cursor; next_word moves the cursor strictly
\* forward and not past the end of the text, and at the end of the text it
\* leaves the cursor where it is.
WordNavigationAdvances ==
    ~crashed =>
        \A b \in LiveBoxes :
            OnGraphemeBoundary(b) =>
                LET pos == boxes[b].cursor
                    len == Len(boxes[b].text)
                IN  /\ NextWordFrom(cursor_move_to_prev_word(BoxState, b, FALSE), b) >= pos
                    /\ IF pos = len THEN NextWordFrom(BoxState, b) = len
                       ELSE /\ NextWordFrom(BoxState, b) > pos
                            /\ NextWordFrom(BoxState, b) <= len

\* ---------------------------------------------------------------------------
\* Editing round trip.

InsertedStrings == {<<>>, <<"x">>, <<"x", "y">>}

\* C31: for every position p from 0 to the length of the buffer and every
\* string s, insert_text(s, p) followed by remove_text(p, p + len(s)) leaves
\* the buffer as it was.
InsertThenRemoveRestores ==
    ~crashed =>
        \A b \in LiveBoxes : \A s \in InsertedStrings : \A p \in 0..Len(boxes[b].text) :
            LET inserted == insert_text(BoxState, b, s, p)
                removed == remove_text(inserted, b, p, p + Len(s))
            IN  /\ ~removed.crashed
                /\ removed.boxes[b].text = boxes[b].text

\* A buffer of two bytes that got its second byte by an insertion, so that
\* the round trip has a position strictly inside the buffer.
InsertedInsideBuffer ==
    /\ ~crashed
    /\ \E b \in LiveBoxes :
          /\ g_focusedTextBox = b
          /\ Len(boxes[b].text) = 2
          /\ boxes[b].cursor = 2
          /\ insert_text(BoxState, b, <<"x">>, 1).boxes[b].text
                 = <<boxes[b].text[1], "x", boxes[b].text[2]>>

\* ---------------------------------------------------------------------------
\* Dragging.

\* C32: handle_mouse_move changes the cursor or the selection of a box only
\* when the box is focused and the primary button is held, that is a primary
\* press has been received and no primary release since.
MouseMoveNeedsHeldButton ==
    ~crashed =>
        \A b \in LiveBoxes :
            \A mouseX \in MouseColumns(boxes[b].text), mouseY \in MouseRows(boxes[b].text) :
                LET moved == handle_mouse_move(BoxState, b, mouseX, mouseY).st.boxes[b]
                IN  (moved.cursor # boxes[b].cursor
                     \/ moved.selectionStart # boxes[b].selectionStart)
                        => g_focusedTextBox = b /\ primaryHeld

\* ---------------------------------------------------------------------------
\* Rects and the clip range of the selection.

\* Coordinates are counted in parts of a pixel: 1.f is Subpixel parts.  On
\* these values the float additions and subtractions of emit_rect are exact.
Subpixel == 2

MaxRectCoord == 6

WHITE == "white"

\* m_textRects.push_back of a rect; of its fields the x-extent and the color
\* are kept.
PushRect(rects, x, width, color) == Append(rects, [x |-> x, width |-> width, color |-> color])

\* An emit_rect that emits the left part however narrow it is.
emit_rect_sliver(rects, x, width, color, clip) ==
    IF clip = <<>> THEN PushRect(rects, x, width, color)
    ELSE IF x >= clip[2] \/ x + width <= clip[1] THEN PushRect(rects, x, width, color)
    ELSE LET left == clip[1] > x /\ clip[1] < x + width
             right == clip[2] > x /\ clip[2] + Subpixel <= x + width
             leftDiff == IF left THEN clip[1] - x ELSE 0
             rightDiff == IF right THEN x + width - clip[2] ELSE 0
             afterLeft == IF left THEN PushRect(rects, x, leftDiff, color) ELSE rects
             afterRight == IF right
                           THEN PushRect(afterLeft, x + width - rightDiff, rightDiff, color)
                           ELSE afterLeft
         IN  PushRect(afterRight, x + leftDiff, width - leftDiff - rightDiff, WHITE)

\* emit_rect(x, y, width, height, texCoords, texture, color, pipeline, pClip):
\* clip is <<>> for a null pClip and <<first, second>> otherwise.
emit_rect(rects, x, width, color, clip) ==
    IF clip = <<>> THEN PushRect(rects, x, width, color)
    ELSE IF x >= clip[2] \/ x + width <= clip[1] THEN PushRect(rects, x, width, color)
    ELSE LET left == clip[1] >= x + Subpixel /\ clip[1] < x + width
             right == clip[2] > x /\ clip[2] + Subpixel <= x + width
             leftDiff == IF left THEN clip[1] - x ELSE 0
             rightDiff == IF right THEN x + width - clip[2] ELSE 0
             newX == x + leftDiff
             newWidth == width - leftDiff - rightDiff
             afterLeft == IF left THEN PushRect(rects, x, leftDiff, color) ELSE rects
             afterRight == IF right
                           THEN PushRect(afterLeft, x + width - rightDiff, rightDiff, color)
                           ELSE afterLeft
         IN  PushRect(afterRight, newX, newWidth, WHITE)

RectColors == {"blue", WHITE}

\* The clip ranges: none, and the ranges first <= second a selection has.
ClipRanges ==
    {<<>>} \cup {c \in (0..(2 * MaxRectCoord)) \X (0..(2 * MaxRectCoord)) : c[1] <= c[2]}

\* The emit_rect calls: a rect, its color, and the clip range.
EmitCalls ==
    {[x |-> x, width |-> width, color |-> color, clip |-> clip, rects |-> <<>>] :
        x \in 0..MaxRectCoord, width \in 0..MaxRectCoord, color \in RectColors,
        clip \in ClipRanges}

EmitRect ==
    /\ emitted.rects = <<>>
    /\ emitted' = [emitted EXCEPT !.rects = emit_rect(<<>>, emitted.x, emitted.width,
                                                      emitted.color, emitted.clip)]
    /\ UNCHANGED <<boxes, g_focusedTextBox, g_isMouseDown, g_clickCount, g_lastClickPos,
                   g_cursorPos, g_charBreakIter, crashed, primaryHeld>>
    /\ UNCHANGED notBox

InitRect ==
    /\ emitted \in EmitCalls
    /\ boxes = <<>>
    /\ InitBoxStatics
    /\ InitRunsIdle
    /\ InitBidiIdle
    /\ InitFontIdle

SpecRect == InitRect /\ [][EmitRect]_vars

Emitted == emitted.rects

RectEnd(rect) == rect.x + rect.width

\* The rects in the order of their left edges: the rect at rank k.
RectsLeftOf(k) == {j \in DOMAIN Emitted : Emitted[j].x < Emitted[k].x \/ (Emitted[j].x = Emitted[k].x /\ (Emitted[j].width < Emitted[k].width \/ (Emitted[j].width = Emitted[k].width /\ j < k)))}

\* The rects tile [x, x + width): put in order, the first starts at x, each
\* next one starts where the one before ends, and the last ends at
\* x + width; so the widths add up to width.
RectsTile ==
    \A k \in DOMAIN Emitted :
        LET rank == Cardinality(RectsLeftOf(k))
        IN  /\ Emitted[k].width >= 0
            /\ rank = 0 => Emitted[k].x = emitted.x
            /\ rank = Len(Emitted) - 1 => RectEnd(Emitted[k]) = emitted.x + emitted.width
            /\ \A j \in DOMAIN Emitted :
                  Cardinality(RectsLeftOf(j)) = rank + 1 => Emitted[j].x = RectEnd(Emitted[k])

\* The clipped middle part is the rect pushed last.
Unclipped == {k \in DOMAIN Emitted : k < Len(Emitted)}

\* C35: a rect entirely outside the clip range is emitted as it is; any
\* other is emitted as one to three rects that tile [x, x + width), the
\* parts left and right of the clip range are each emitted with the color
\* given only when at least one pixel wide and are otherwise part of the
\* middle rect, and the middle rect is the one whose color is substituted.
ClippedRectsTile ==
    (emitted.rects # <<>> /\ emitted.clip # <<>>) =>
        LET x == emitted.x
            xEnd == emitted.x + emitted.width
            first == emitted.clip[1]
            second == emitted.clip[2]
            leftPart == first - x
            rightPart == xEnd - second
        IN  IF x >= second \/ xEnd <= first
            THEN Emitted = <<[x |-> x, width |-> emitted.width, color |-> emitted.color]>>
            ELSE /\ Len(Emitted) \in 1..3
                 /\ RectsTile
                 /\ \A k \in Unclipped :
                       /\ Emitted[k].color = emitted.color
                       /\ Emitted[k].width >= Subpixel
                       /\ \/ Emitted[k].x = x /\ Emitted[k].width = leftPart
                          \/ Emitted[k].x = second /\ Emitted[k].width = rightPart
                 /\ leftPart >= Subpixel <=> \E k \in Unclipped : Emitted[k].x = x
                 /\ rightPart >= Subpixel <=> \E k \in Unclipped : Emitted[k].x = second
                 /\ Emitted[Len(Emitted)].color = WHITE
                 /\ Emitted[Len(Emitted)].x = IF leftPart >= Subpixel THEN first ELSE x
                 /\ RectEnd(Emitted[Len(Emitted)])
                        = IF rightPart >= Subpixel THEN second ELSE xEnd

\* A rect split in three: both unclipped parts and the middle are emitted.
RectSplitInThree ==
    /\ emitted.clip # <<>>
    /\ Len(emitted.rects) = 3
    /\ emitted.clip[1] < emitted.clip[2]

\* ---------------------------------------------------------------------------
\* The cursor and the text.

\* The text the cursor of a box indexes: the content text when the box is
\* laid out as rich text, its text otherwise.
IndexedText(b) ==
    IF RichTextArgument(BoxState, b) THEN parse_inline_formatting(boxes[b].text)
    ELSE boxes[b].text

\* C36: after any sequence of operations on a text box its cursor position
\* is at most the length of the text it indexes, and so is a valid selection
\* anchor.
CursorWithinText ==
    ~crashed =>
        \A b \in LiveBoxes :
            /\ boxes[b].cursor <= Len(IndexedText(b))
            /\ boxes[b].selectionStart # INVALID_VALUE =>
                  boxes[b].selectionStart <= Len(IndexedText(b))

\* C37: on a box whose editable flag is false no key press and no text
\* input changes the text.
ReadOnlyTextIsKept ==
    ~crashed =>
        \A b \in LiveBoxes :
            ~boxes[b].editable =>
                /\ \A k \in KeyInputs :
                      LET after == handle_key_press(BoxState, b, k.key, k.action,
                                                    k.shift, k.ctrl).st
                      IN  after.boxes[b].text = boxes[b].text
                /\ \A codepoint \in InputCodepoints :
                      handle_text_input(BoxState, b, codepoint).st.boxes[b].text
                          = boxes[b].text

\* C38: after a handle_text_input that inserts text the selection anchor is
\* invalid, whatever it was before, and a second text input right after
\* the first adds its codepoint to the text the first one left.
TextInputClearsSelection ==
    ~crashed =>
        \A b \in LiveBoxes : \A first \in InputCodepoints, second \in InputCodepoints :
            (g_focusedTextBox = b /\ boxes[b].editable) =>
                LET one == handle_text_input(BoxState, b, first).st
                    two == handle_text_input(one, b, second).st
                IN  ~one.crashed =>
                        /\ one.boxes[b].selectionStart = INVALID_VALUE
                        /\ ~two.crashed
                        /\ Len(two.boxes[b].text)
                               = Len(one.boxes[b].text) + Len(U8Append(second))

\* ---------------------------------------------------------------------------
\* Two threads in the font registry.  The registry has no lock: a thread in
\* register_family and a thread in a reading function take their steps in
\* any order.

\* The families the writer registers, and the names the reader asks for.
ThreadInfos ==
    {FamilyInfo("A", {"Latn"}, <<>>, <<>>, FALSE, <<Face("fx", "REGULAR", "NORMAL")>>),
     FamilyInfo("B", {}, <<"A">>, <<>>, FALSE, <<Face("fy", "REGULAR", "NORMAL")>>),
     FamilyInfo("B", {"Hebr"}, <<>>, <<"A">>, TRUE, <<>>)}

ReaderNames == {"A", "B"}

ReaderOps == {"get_face", "get_sub_font"}

RegistryBecomes(reg) ==
    /\ g_faces' = reg.faces
    /\ g_facesByName' = reg.facesByName
    /\ g_familyData' = reg.familyData
    /\ g_familiesByName' = reg.familiesByName

WriterAt(pc) == threads.writer.pc = pc

WriterGoes(pc) == threads' = [threads EXCEPT !.writer.pc = pc]

\* register_family is called.
WriterCall ==
    /\ WriterAt("idle")
    /\ \E info \in ThreadInfos :
          threads' = [threads EXCEPT !.writer = [pc |-> "name", info |-> info, family |-> -1]]
    /\ UNCHANGED varsRegistry
    /\ UNCHANGED notThreads

\* get_or_add_family: the find, and for a new name the emplace into
\* g_familiesByName.
WriterAddName ==
    /\ WriterAt("name")
    /\ LET name == threads.writer.info.name
       IN  IF MapHas(g_familiesByName, name)
           THEN /\ threads' = [threads EXCEPT
                                 !.writer.pc = "check",
                                 !.writer.family = MapGet(g_familiesByName, name)]
                /\ UNCHANGED g_familiesByName
           ELSE /\ threads' = [threads EXCEPT !.writer.pc = "record",
                                              !.writer.family = Len(g_familyData)]
                /\ g_familiesByName' =
                       g_familiesByName \cup {[name |-> name, handle |-> Len(g_familyData)]}
    /\ UNCHANGED <<g_faces, g_facesByName, g_familyData>>
    /\ UNCHANGED notThreads

\* get_or_add_family: g_familyData.emplace_back().
WriterAddRecord ==
    /\ WriterAt("record")
    /\ g_familyData' = Append(g_familyData, NewFamilyData)
    /\ WriterGoes("check")
    /\ UNCHANGED <<g_faces, g_facesByName, g_familiesByName>>
    /\ UNCHANGED notThreads

\* register_family: the family_is_initialized test.
WriterCheck ==
    /\ WriterAt("check")
    /\ WriterGoes(IF family_is_initialized(Registry, threads.writer.family)
                  THEN "idle" ELSE "scripts")
    /\ UNCHANGED varsRegistry
    /\ UNCHANGED notThreads

WriterScripts ==
    /\ WriterAt("scripts")
    /\ RegistryBecomes(InitializeScripts(Registry, threads.writer.family,
                                         threads.writer.info))
    /\ WriterGoes("links")
    /\ UNCHANGED notThreads

\* The linked and fallback lists; with null pFaces they are taken back and
\* register_family returns.
WriterLinks ==
    /\ WriterAt("links")
    /\ LET r == InitializeLinks(Registry, threads.writer.family, threads.writer.info)
       IN  IF threads.writer.info.pFacesNull
           THEN /\ RegistryBecomes(ResetFamily(r, threads.writer.family))
                /\ WriterGoes("idle")
           ELSE /\ RegistryBecomes(r)
                /\ WriterGoes("faces")
    /\ UNCHANGED notThreads

WriterFaces ==
    /\ WriterAt("faces")
    /\ RegistryBecomes(InitializeFaces(Registry, threads.writer.family,
                                       threads.writer.info))
    /\ WriterGoes("publish")
    /\ UNCHANGED notThreads

WriterPublish ==
    /\ WriterAt("publish")
    /\ RegistryBecomes(MarkInitialized(Registry, threads.writer.family))
    /\ WriterGoes("idle")
    /\ UNCHANGED notThreads

\* The writer is between the initialized test and the return of
\* register_family for this family: its record is partly written.
WriterWrites(family) ==
    /\ threads.writer.pc \in {"scripts", "links", "faces", "publish"}
    /\ threads.writer.family = family

\* The reader calls get_family and keeps the handle.
ReaderGetFamily ==
    /\ threads.reader.pc = "idle"
    /\ \E name \in ReaderNames :
          threads' = [threads EXCEPT
                        !.reader = [pc |-> "idle", op |-> "get_family",
                                    family |-> get_family(Registry, name),
                                    result |-> NoThreads.reader.result]]
    /\ UNCHANGED varsRegistry
    /\ UNCHANGED notThreads

\* The reader enters get_face or get_sub_font with the handle it has.
ReaderBegin ==
    /\ threads.reader.pc = "idle"
    /\ threads.reader.family # InvalidFace
    /\ \E op \in ReaderOps :
          threads' = [threads EXCEPT !.reader.pc = "reading", !.reader.op = op,
                                     !.reader.result = NoThreads.reader.result]
    /\ UNCHANGED varsRegistry
    /\ UNCHANGED notThreads

\* What the read returns.  A read of a record that does not exist, or that
\* the writer is writing, is a data race: any face handle, or a crash.
\* get_sub_font asserts that the family is initialized; a build without
\* asserts reads on.
ReadOutcomes(family, op) ==
    IF family >= Len(g_familyData) \/ WriterWrites(family)
    THEN {[status |-> "crash", face |-> InvalidFace]}
             \cup {[status |-> "face", face |-> f] :
                      f \in {InvalidFace} \cup (0..(Len(g_faces) - 1))}
    ELSE IF op = "get_sub_font" /\ ~family_is_initialized(Registry, family)
    THEN {[status |-> "crash", face |-> InvalidFace],
          [status |-> "face",
           face |-> get_font_for_script(Registry, family, "REGULAR", "NORMAL", "Latn")]}
    ELSE IF op = "get_face"
         THEN {[status |-> "face",
                face |-> FamilyData_get_face(FamilyOf(Registry, family),
                                             "REGULAR", "NORMAL")]}
         ELSE {[status |-> "face",
                face |-> get_font_for_script(Registry, family, "REGULAR", "NORMAL",
                                             "Latn")]}

ReaderEnd ==
    /\ threads.reader.pc = "reading"
    /\ \E result \in ReadOutcomes(threads.reader.family, threads.reader.op) :
          threads' = [threads EXCEPT !.reader.pc = "idle", !.reader.result = result]
    /\ UNCHANGED varsRegistry
    /\ UNCHANGED notThreads

NextThreads ==
    \/ WriterCall
    \/ WriterAddName
    \/ WriterAddRecord
    \/ WriterCheck
    \/ WriterScripts
    \/ WriterLinks
    \/ WriterFaces
    \/ WriterPublish
    \/ ReaderGetFamily
    \/ ReaderBegin
    \/ ReaderEnd

SpecThreads == InitFont /\ [][NextThreads]_vars

\* C39: the registration is serialised against the readers.  A handle the
\* reader has obtained names a family record that exists, and the reader is
\* not inside get_face or get_sub_font on a family whose record the writer is
\* writing.
RegistrationIsSerialised ==
    /\ threads.reader.family # InvalidFace =>
          threads.reader.family < Len(g_familyData)
    /\ ~(threads.reader.pc = "reading" /\ WriterWrites(threads.reader.family))

\* ---------------------------------------------------------------------------
\* u8bidi_get_levels on a line object.

\* The two arrays a levels pointer of a line can point into: the parent
\* paragraph's levels and the line's own levelsMemory.
LevelsHeap(ln) == [para |-> para.levels, line |-> ln.levelsMemory]

\* The pointer pBiDi->levels of the line.
LevelsPointer(ln) ==
    IF ln.levelsInMemory THEN [region |-> "line", offset |-> 0]
    ELSE [region |-> "para", offset |-> ln.start]

\* memcpy and memset through a pointer: values[1..n] stored at the pointer.
\* The line's memory is grown by getLevelsMemory to the length asked for.
StoreLevels(heap, pointer, values) ==
    IF pointer.region = "para"
    THEN [heap EXCEPT !.para =
            [i \in 1..Len(heap.para) |->
                IF pointer.offset < i /\ i <= pointer.offset + Len(values)
                THEN values[i - pointer.offset] ELSE heap.para[i]]]
    ELSE [heap EXCEPT !.line = values]

\* The body of u8bidi_get_levels after its early returns, writing through
\* the pointer levels: the first trailingWSStart levels are copied, the rest
\* is set to paraLevel.
MaterialiseLevels(ln, levels) ==
    LET values == [i \in 1..ln.length |->
                      IF i <= ln.trailingWSStart THEN LineLevel(ln, i - 1)
                      ELSE ln.paraLevel]
        heap == StoreLevels(LevelsHeap(ln), levels, values)
    IN  [para |-> heap.para,
         line |-> [ln EXCEPT !.trailingWSStart = ln.length,
                             !.levelsInMemory = levels.region = "line",
                             !.levelsMemory = heap.line],
         levels |-> values,
         errorCode |-> "U_ZERO_ERROR"]

\* The levels the caller reads through the returned pointer.
VisibleLevels(ln) == [i \in 1..ln.length |-> LineLevel(ln, i - 1)]

\* A u8bidi_get_levels that writes the trailing run where the line's levels
\* pointer already is.
u8bidi_get_levels_in_place(ln, memoryOk) ==
    IF ln.length <= 0
    THEN [para |-> para.levels, line |-> ln, levels |-> <<>>,
          errorCode |-> "U_ILLEGAL_ARGUMENT_ERROR"]
    ELSE IF ln.trailingWSStart = ln.length
    THEN [para |-> para.levels, line |-> ln, levels |-> VisibleLevels(ln),
          errorCode |-> "U_ZERO_ERROR"]
    ELSE IF memoryOk
    THEN MaterialiseLevels(ln, LevelsPointer(ln))
    ELSE [para |-> para.levels, line |-> ln, levels |-> <<>>,
          errorCode |-> "U_MEMORY_ALLOCATION_ERROR"]

\* u8bidi_get_levels(pBiDi, pErrorCode) on a line; memoryOk is the outcome of
\* getLevelsMemory.  The result holds the paragraph's levels array and the
\* line after the call, and the array returned.
u8bidi_get_levels(ln, memoryOk) ==
    IF ln.length <= 0
    THEN [para |-> para.levels, line |-> ln, levels |-> <<>>,
          errorCode |-> "U_ILLEGAL_ARGUMENT_ERROR"]
    ELSE IF ln.trailingWSStart = ln.length
    THEN [para |-> para.levels, line |-> ln, levels |-> VisibleLevels(ln),
          errorCode |-> "U_ZERO_ERROR"]
    ELSE IF memoryOk
    THEN MaterialiseLevels(ln, [region |-> "line", offset |-> 0])
    ELSE [para |-> para.levels, line |-> ln, levels |-> <<>>,
          errorCode |-> "U_MEMORY_ALLOCATION_ERROR"]

GetLevels ==
    /\ line # NoLine
    /\ \E memoryOk \in BOOLEAN :
         LET r == u8bidi_get_levels(line, memoryOk)
         IN  /\ para' = [para EXCEPT !.levels = r.para]
             /\ line' = r.line
             /\ bidiOut' = [op |-> "levels", arg |-> 0, res |-> Len(r.levels)]
    /\ UNCHANGED notBidi

\* The paragraphs that end in whitespace: their lines end in whitespace or,
\* cut short, in a letter.
ParasEndingInWS ==
    {p \in MixedParas \cup UniformParas : p.dirProps[p.length] = "WS"}

InitLevels ==
    /\ para \in ParasEndingInWS
    /\ line = NoLine
    /\ bidiOut = NoOut
    /\ InitRunsIdle
    /\ InitFontIdle
    /\ InitBoxIdle

NextLevels == SetLine \/ GetLevels \/ CountRuns \/ GetVisualIndex \/ GetLogicalIndex

SpecLevels == InitLevels /\ [][NextLevels]_vars

\* C40: a line only aliases its paragraph's arrays.  In every state that
\* set_line, get_runs, get_levels and the index calls reach, u8bidi_get_levels
\* on the line leaves the paragraph's levels as they are, whether or not the
\* memory is granted; when it is, the array returned holds the line's levels
\* before trailingWSStart and paraLevel from there on, the line's
\* trailingWSStart equals its length, a line that had an implicit trailing
\* run now reads its own memory, and every line set on the paragraph
\* afterwards reads the levels it read before.
LineLevelsStayInLine ==
    line # NoLine =>
        LET r == u8bidi_get_levels(line, TRUE)
            f == u8bidi_get_levels(line, FALSE)
        IN  /\ r.para = para.levels
            /\ f.para = para.levels
            /\ line.trailingWSStart < line.length =>
                  /\ f.line = line
                  /\ f.errorCode = "U_MEMORY_ALLOCATION_ERROR"
                  /\ r.line.levelsInMemory
            /\ r.errorCode = "U_ZERO_ERROR"
            /\ r.line.trailingWSStart = line.length
            /\ \A i \in 0..(line.length - 1) :
                  r.levels[i + 1] = IF i < line.trailingWSStart
                                    THEN LineLevel(line, i) ELSE line.paraLevel
            /\ \A i \in 0..(line.length - 1) :
                  r.line.levelsInMemory => r.line.levelsMemory[i + 1] = r.levels[i + 1]
            /\ \A rg \in LineRanges(para) :
                  \A i \in rg[1]..(rg[2] - 1) : r.para[i + 1] = para.levels[i + 1]

\* A line that starts inside its paragraph has had its levels materialised,
\* and its trailing run reads paraLevel where the paragraph's array holds
\* another level.
TrailingRunMaterialised ==
    /\ line # NoLine
    /\ bidiOut.op = "levels"
    /\ line.start > 0
    /\ line.levelsInMemory
    /\ line.trailingWSStart = line.length
    /\ \E i \in 0..(line.length - 1) :
          /\ line.levelsMemory[i + 1] = line.paraLevel
          /\ para.levels[line.start + i + 1] # line.paraLevel
====
